---- MODULE Spec2Model ----
(***************************************************************************)
(* Model of bzrlib's compiled dirstate helpers: the directory-aware path   *)
(* comparisons, the three bisection primitives and the dirblock Reader,    *)
(* and of the compiled B-tree leaf serializer and parser.                  *)
(* Byte strings are sequences of byte values (0..255); a C pointer into a  *)
(* string is a 0-based offset into the sequence.                           *)
(***************************************************************************)
EXTENDS Integers, Sequences, FiniteSets, TLC

\* ------------------------------------------------------------------ bounds
MaxPathLen == 4      \* longest path handed to the comparison functions
MaxList == 3         \* longest list handed to a bisection
MaxRows == 4         \* most rows laid out in a dirstate buffer
MaxNodes == 2        \* most nodes flattened into one leaf
MaxRefs == 2         \* most references in one reference list
MaxOrderLen == 3     \* longest path in a sort of three
MaxLines == 3        \* lines of a hand-made leaf buffer

\* ------------------------------------------------------- program constants
SLASH == 47          \* c'/'
NUL == 0             \* c'\0'
LF == 10             \* c'\n'
CH_y == 121          \* c'y'
SIZEOF_INT == 4      \* sizeof(int)

\* Bytes the inputs are drawn from: one below '/', '/', and one above it.
DASH == 45
CH_a == 97
CH_b == 98
PathBytes == {DASH, SLASH, CH_a}

SeqsUpTo(S, n) == UNION {[1..k -> S] : k \in 0..n}

\* The calibration paths of the _bisect_path_left_c docstring.
CalibA == <<CH_a>>
CalibADashB == <<CH_a, DASH, CH_b>>
CalibASlashB == <<CH_a, SLASH, CH_b>>
CalibPaths == {CalibA, CalibADashB, CalibASlashB}

\* Paths that share their first int and go on for up to two bytes.
WordPaths == {<<CH_a, CH_a, CH_a, CH_a>> \o t : t \in SeqsUpTo(PathBytes, 2)}

CmpPaths == SeqsUpTo(PathBytes, MaxPathLen) \cup CalibPaths \cup WordPaths

VARIABLES
    pc,          \* position of the running call
    path1,       \* first path argument (bytes)
    path2,       \* second path argument (bytes)
    same_obj,    \* path1 and path2 are one Python string object
    aligned1,    \* _is_aligned(path1's buffer)
    aligned2,    \* _is_aligned(path2's buffer)
    op,          \* which function was called
    result,      \* its return value
    paths,       \* bisect_path_*: the list of paths
    path,        \* bisect_path_*: the path to insert
    dirblocks,   \* bisect_dirblock: the list of (dirname, rows) tuples
    dirname,     \* bisect_dirblock: the directory name to insert
    ident,       \* indexes of list elements that are the target object itself
    lo_arg,      \* bisect_dirblock: lo
    hi_arg,      \* bisect_dirblock: hi, PyNone when not given
    seen,        \* list indexes the call read (PyList_GET_ITEM)
    input,       \* how the dirstate buffer was laid out (not read by the code)
    text,        \* Reader.text: the bytes after the dirstate header
    cur_cstr,    \* Reader.cur_cstr as an offset into text, NULLPTR for NULL
    num_trees,   \* state._num_present_parents() + 1
    expected_entry_count,  \* state._num_entries
    entry_count, \* rows read so far
    current_dirname,       \* the directory name object in use
    current_block,         \* 1-based index in _dirblocks of current_block
    state_dirblocks,       \* state._dirblocks
    dirblock_state,        \* state._dirblock_state
    err,         \* the exception raised, "none" while there is none
    seq_type,    \* bisect_*: the Python type of the sequence argument
    target_type, \* bisect_*: the Python type of the path or dirname argument
    path3,       \* third path of a sort of three
    order,       \* cmp results of a sort of three, by pair of positions
    nodes,       \* the index nodes handed to _flatten_node, in order
    reference_lists,       \* _flatten_node: the index has reference lists
    flat,        \* the (string_key, line) pairs _flatten_node returned
    bytes,       \* BTreeLeafParser.bytes
    key_length,  \* BTreeLeafParser.key_length
    ref_list_length,       \* BTreeLeafParser.ref_list_length
    cur_str,     \* BTreeLeafParser._cur_str as an offset into bytes
    header_found,          \* BTreeLeafParser._header_found
    keys,        \* BTreeLeafParser.keys
    leaf_err,    \* the exception _flatten_node or the parser raised
    passes       \* passes of the parser's while loop so far

cmp_vars == <<path1, path2, same_obj>>
bisect_vars == <<paths, path, dirblocks, dirname, ident, lo_arg, hi_arg, seen,
                 seq_type, target_type>>
reader_vars == <<input, text, cur_cstr, num_trees, expected_entry_count,
                 entry_count, current_dirname, current_block,
                 state_dirblocks, dirblock_state, err>>
order_vars == <<path3, order>>
leaf_vars == <<nodes, reference_lists, flat, bytes, key_length,
               ref_list_length, cur_str, header_found, keys, leaf_err>>
vars == <<pc, op, result, aligned1, aligned2, cmp_vars, bisect_vars,
          reader_vars, order_vars, leaf_vars, passes>>

\* ------------------------------------------------------------ _cmp_by_dirs

\* All bytes of the int at offset cur are equal: cur_int1[0] == cur_int2[0].
WordEq(p1, p2, cur) ==
    \A k \in 1..SIZEOF_INT : p1[cur + k] = p2[cur + k]

\* A 32-bit loop that steps over the int that differs.
RECURSIVE WordLoopStepsOver(_, _, _)
WordLoopStepsOver(p1, p2, cur) ==
    LET end_int1 == Len(p1) - (Len(p1) % SIZEOF_INT)
        end_int2 == Len(p2) - (Len(p2) % SIZEOF_INT)
    IN  IF cur < end_int1 /\ cur < end_int2
        THEN IF ~WordEq(p1, p2, cur) THEN cur + SIZEOF_INT
             ELSE WordLoopStepsOver(p1, p2, cur + SIZEOF_INT)
        ELSE cur

\* The 32-bit loop: returns the offset both cursors stop at.
RECURSIVE WordLoop(_, _, _)
WordLoop(p1, p2, cur) ==
    LET end_int1 == Len(p1) - (Len(p1) % SIZEOF_INT)
        end_int2 == Len(p2) - (Len(p2) % SIZEOF_INT)
    IN  IF cur < end_int1 /\ cur < end_int2
        THEN IF ~WordEq(p1, p2, cur) THEN cur
             ELSE WordLoop(p1, p2, cur + SIZEOF_INT)
        ELSE cur

\* A mismatching byte pair whose '/' is not treated as a separator.
MismatchPlainBytes(b1, b2) ==
    IF b1 < b2 THEN -1 ELSE 1

\* A mismatching byte pair whose '/' sorts after every other byte.
MismatchSepLast(b1, b2) ==
    IF b1 = SLASH THEN 1
    ELSE IF b2 = SLASH THEN -1
    ELSE IF b1 < b2 THEN -1
    ELSE 1

\* A mismatching byte pair where a '/' on either side puts path1 first.
MismatchSepAlwaysFirst(b1, b2) ==
    IF b1 = SLASH THEN -1
    ELSE IF b2 = SLASH THEN -1
    ELSE IF b1 < b2 THEN -1
    ELSE 1

\* The current characters do not match.
Mismatch(b1, b2) ==
    IF b1 = SLASH THEN -1
    ELSE IF b2 = SLASH THEN 1
    ELSE IF b1 < b2 THEN -1
    ELSE 1

\* A byte loop that puts the longer of two paths first when one is a prefix
\* of the other.
RECURSIVE ByteLoopLongerFirst(_, _, _)
ByteLoopLongerFirst(p1, p2, cur) ==
    IF cur < Len(p1) /\ cur < Len(p2)
    THEN IF p1[cur + 1] = p2[cur + 1]
         THEN ByteLoopLongerFirst(p1, p2, cur + 1)
         ELSE Mismatch(p1[cur + 1], p2[cur + 1])
    ELSE IF cur < Len(p1) THEN -1
    ELSE IF cur < Len(p2) THEN 1
    ELSE 0

\* The byte loop and the end-of-string tests after it.
RECURSIVE ByteLoop(_, _, _)
ByteLoop(p1, p2, cur) ==
    IF cur < Len(p1) /\ cur < Len(p2)
    THEN IF p1[cur + 1] = p2[cur + 1]
         THEN ByteLoop(p1, p2, cur + 1)
         ELSE Mismatch(p1[cur + 1], p2[cur + 1])
    ELSE IF cur < Len(p1) THEN 1
    ELSE IF cur < Len(p2) THEN -1
    ELSE 0

\* _cmp_by_dirs(path1, size1, path2, size2); ptr_eq is path1 == path2, the
\* al flags are _is_aligned of each pointer.
cmp_by_dirs(p1, al1, p2, al2, ptr_eq) ==
    IF ptr_eq /\ Len(p1) = Len(p2) THEN 0
    ELSE IF al1 /\ al2
         THEN ByteLoop(p1, p2, WordLoop(p1, p2, 0))
         ELSE ByteLoop(p1, p2, 0)

\* cmp_by_dirs_c(path1, path2) on two plain strings.
cmp_by_dirs_c(p1, al1, p2, al2, same) ==
    cmp_by_dirs(p1, al1, p2, al2, same)

\* ---------------------------------------------------- _cmp_path_by_dirblock

\* _my_memrchr: 0-based offset of the last c in s, or -1 for NULL.
RECURSIVE my_memrchr(_, _, _)
my_memrchr(s, c, pos) ==
    IF pos >= 0
    THEN IF s[pos + 1] = c THEN pos ELSE my_memrchr(s, c, pos - 1)
    ELSE -1

\* memcmp(b1, b2, n): the difference of the first differing bytes, as
\* unsigned chars; only its sign is specified.
RECURSIVE memcmp(_, _, _, _)
memcmp(b1, b2, n, i) ==
    IF i >= n THEN 0
    ELSE IF b1[i + 1] # b2[i + 1] THEN b1[i + 1] - b2[i + 1]
    ELSE memcmp(b1, b2, n, i + 1)

\* A basename comparison that puts the first basename first whenever the
\* lengths differ.
CmpBasenamesFirstShorter(basename1, basename2) ==
    LET cur_len == IF Len(basename2) < Len(basename1)
                   THEN Len(basename2) ELSE Len(basename1)
        cmp_val == memcmp(basename1, basename2, cur_len, 0)
    IN  IF cmp_val # 0 THEN cmp_val
        ELSE IF Len(basename1) = Len(basename2) THEN 0
        ELSE -1

\* The basename comparison that ends _cmp_path_by_dirblock.
CmpBasenames(basename1, basename2) ==
    LET cur_len == IF Len(basename2) < Len(basename1)
                   THEN Len(basename2) ELSE Len(basename1)
        cmp_val == memcmp(basename1, basename2, cur_len, 0)
    IN  IF cmp_val # 0 THEN cmp_val
        ELSE IF Len(basename1) = Len(basename2) THEN 0
        ELSE IF Len(basename1) < Len(basename2) THEN -1
        ELSE 1

\* A comparison of the whole paths directory by directory.
cmp_path_by_dirblock_whole(p1, al1, p2, al2, ptr_eq) ==
    cmp_by_dirs(p1, al1, p2, al2, ptr_eq)

\* _cmp_path_by_dirblock(path1, path1_len, path2, path2_len).  A dirname is
\* either the path's own buffer or the literal ''; two literals are one
\* pointer, and the literal's alignment cannot matter as its length is 0.
cmp_path_by_dirblock(p1, al1, p2, al2, ptr_eq) ==
    IF Len(p1) = 0 /\ Len(p2) = 0 THEN 0
    ELSE IF ptr_eq /\ Len(p1) = Len(p2) THEN 0
    ELSE IF Len(p1) = 0 THEN -1
    ELSE IF Len(p2) = 0 THEN 1
    ELSE
      LET slash1 == my_memrchr(p1, SLASH, Len(p1) - 1)
          slash2 == my_memrchr(p2, SLASH, Len(p2) - 1)
          dirname1 == IF slash1 = -1 THEN <<>> ELSE SubSeq(p1, 1, slash1)
          dirname2 == IF slash2 = -1 THEN <<>> ELSE SubSeq(p2, 1, slash2)
          basename1 == IF slash1 = -1 THEN p1
                       ELSE SubSeq(p1, slash1 + 2, Len(p1))
          basename2 == IF slash2 = -1 THEN p2
                       ELSE SubSeq(p2, slash2 + 2, Len(p2))
          cmp_val == cmp_by_dirs(dirname1, slash1 = -1 \/ al1,
                                 dirname2, slash2 = -1 \/ al2,
                                 slash1 = -1 /\ slash2 = -1)
      IN  IF cmp_val # 0 THEN cmp_val
          ELSE CmpBasenames(basename1, basename2)

\* ------------------------------------------------- comparison specification

\* hi=None
PyNone == -1

\* NULL
NULLPTR == -1

\* No dirstate is being read.
ReaderIdle ==
    /\ input = <<>>
    /\ text = <<>>
    /\ cur_cstr = NULLPTR
    /\ num_trees = 1
    /\ expected_entry_count = 0
    /\ entry_count = 0
    /\ current_dirname = <<>>
    /\ current_block = 1
    /\ state_dirblocks = <<>>
    /\ dirblock_state = "NOT_IN_MEMORY"
    /\ err = "none"

\* No bisection call is in progress.
OrderIdle ==
    /\ path3 = <<>>
    /\ order = <<>>

LeafIdle ==
    /\ nodes = <<>>
    /\ reference_lists = FALSE
    /\ flat = <<>>
    /\ bytes = <<>>
    /\ key_length = 1
    /\ ref_list_length = 0
    /\ cur_str = NULLPTR
    /\ header_found = 0
    /\ keys = <<>>
    /\ leaf_err = "none"

BisectIdle ==
    /\ seq_type = "list"
    /\ target_type = "str"
    /\ paths = <<>>
    /\ path = <<>>
    /\ dirblocks = <<>>
    /\ dirname = <<>>
    /\ ident = {}
    /\ lo_arg = 0
    /\ hi_arg = PyNone
    /\ seen = {}

InitCmp ==
    /\ pc = "start"
    /\ path1 \in CmpPaths
    /\ path2 \in CmpPaths
    /\ same_obj \in BOOLEAN
    /\ same_obj => path1 = path2
    /\ aligned1 \in BOOLEAN
    /\ aligned2 \in BOOLEAN
    /\ same_obj => aligned1 = aligned2
    /\ op = "none"
    /\ result = 0
    /\ BisectIdle
    /\ ReaderIdle
    /\ OrderIdle
    /\ LeafIdle
    /\ passes = 0

CallCmpByDirs ==
    /\ pc = "start"
    /\ op' = "cmp_by_dirs"
    /\ result' = cmp_by_dirs_c(path1, aligned1, path2, aligned2, same_obj)
    /\ pc' = "done"
    /\ UNCHANGED <<aligned1, aligned2, cmp_vars, bisect_vars, reader_vars,
                   order_vars, leaf_vars>>
    /\ UNCHANGED passes

CallCmpPathByDirblock ==
    /\ pc = "start"
    /\ op' = "cmp_path_by_dirblock"
    /\ result' = cmp_path_by_dirblock(path1, aligned1, path2, aligned2,
                                      same_obj)
    /\ pc' = "done"
    /\ UNCHANGED <<aligned1, aligned2, cmp_vars, bisect_vars, reader_vars,
                   order_vars, leaf_vars>>
    /\ UNCHANGED passes

NextCmp ==
    \/ CallCmpByDirs
    \/ CallCmpPathByDirblock

SpecCmp == InitCmp /\ [][NextCmp]_vars

\* ------------------------------------------------------------- bisection

\* Paths the bisected lists and targets are drawn from: the empty path, plain
\* names, names in a directory, and paths with a leading or trailing '/'.
BisectPaths ==
    { <<>>, <<SLASH>>, <<CH_a>>, <<DASH>>, <<SLASH, CH_a>>, <<CH_a, SLASH>>,
      <<CH_a, DASH, CH_a>>, <<CH_a, SLASH, CH_a>>, <<CH_a, SLASH, DASH>>,
      <<DASH, SLASH, CH_a>> }

\* _bisect_path_left_c's loop with the test "<= 0": skips over equal elements.
RECURSIVE bisect_path_left_loop_le(_, _, _, _, _, _, _, _)
bisect_path_left_loop_le(ps, p, same, al_list, al_path, lo, hi, read) ==
    IF lo < hi
    THEN LET mid == (lo + hi) \div 2
             cur == ps[mid + 1]
         IN  IF cmp_path_by_dirblock(cur, al_list, p, al_path,
                                     (mid + 1) \in same) <= 0
             THEN bisect_path_left_loop_le(ps, p, same, al_list, al_path,
                                           mid + 1, hi, read \cup {mid})
             ELSE bisect_path_left_loop_le(ps, p, same, al_list, al_path,
                                           lo, mid, read \cup {mid})
    ELSE [lo |-> lo, seen |-> read]

\* The while loop of _bisect_path_left_c.  Returns the final _lo and the set of
\* list indexes read.  al_list and al_path are the alignments of the list's
\* strings and of path; same is the set of indexes holding the path object.
RECURSIVE bisect_path_left_loop(_, _, _, _, _, _, _, _)
bisect_path_left_loop(ps, p, same, al_list, al_path, lo, hi, read) ==
    IF lo < hi
    THEN LET mid == (lo + hi) \div 2
             cur == ps[mid + 1]
         IN  IF cmp_path_by_dirblock(cur, al_list, p, al_path,
                                     (mid + 1) \in same) < 0
             THEN bisect_path_left_loop(ps, p, same, al_list, al_path,
                                        mid + 1, hi, read \cup {mid})
             ELSE bisect_path_left_loop(ps, p, same, al_list, al_path,
                                        lo, mid, read \cup {mid})
    ELSE [lo |-> lo, seen |-> read]

\* _bisect_path_left_c(paths, path) on a list of strings and a string.
bisect_path_left_c(ps, p, same, al_list, al_path) ==
    bisect_path_left_loop(ps, p, same, al_list, al_path, 0, Len(ps), {})

\* _bisect_path_right_c's loop with the test "<= 0": stops left of equals.
RECURSIVE bisect_path_right_loop_le(_, _, _, _, _, _, _, _)
bisect_path_right_loop_le(ps, p, same, al_list, al_path, lo, hi, read) ==
    IF lo < hi
    THEN LET mid == (lo + hi) \div 2
             cur == ps[mid + 1]
         IN  IF cmp_path_by_dirblock(p, al_path, cur, al_list,
                                     (mid + 1) \in same) <= 0
             THEN bisect_path_right_loop_le(ps, p, same, al_list, al_path,
                                            lo, mid, read \cup {mid})
             ELSE bisect_path_right_loop_le(ps, p, same, al_list, al_path,
                                            mid + 1, hi, read \cup {mid})
    ELSE [lo |-> lo, seen |-> read]

\* _bisect_path_right_c's loop comparing with _cmp_by_dirs instead of the
\* dirblock order.
RECURSIVE bisect_path_right_loop_by_dirs(_, _, _, _, _, _, _, _)
bisect_path_right_loop_by_dirs(ps, p, same, al_list, al_path, lo, hi, read) ==
    IF lo < hi
    THEN LET mid == (lo + hi) \div 2
             cur == ps[mid + 1]
         IN  IF cmp_by_dirs(p, al_path, cur, al_list, (mid + 1) \in same) < 0
             THEN bisect_path_right_loop_by_dirs(ps, p, same, al_list,
                                                 al_path, lo, mid,
                                                 read \cup {mid})
             ELSE bisect_path_right_loop_by_dirs(ps, p, same, al_list,
                                                 al_path, mid + 1, hi,
                                                 read \cup {mid})
    ELSE [lo |-> lo, seen |-> read]

\* The while loop of _bisect_path_right_c.
RECURSIVE bisect_path_right_loop(_, _, _, _, _, _, _, _)
bisect_path_right_loop(ps, p, same, al_list, al_path, lo, hi, read) ==
    IF lo < hi
    THEN LET mid == (lo + hi) \div 2
             cur == ps[mid + 1]
         IN  IF cmp_path_by_dirblock(p, al_path, cur, al_list,
                                     (mid + 1) \in same) < 0
             THEN bisect_path_right_loop(ps, p, same, al_list, al_path,
                                         lo, mid, read \cup {mid})
             ELSE bisect_path_right_loop(ps, p, same, al_list, al_path,
                                         mid + 1, hi, read \cup {mid})
    ELSE [lo |-> lo, seen |-> read]

\* _bisect_path_right_c(paths, path) on a list of strings and a string.
bisect_path_right_c(ps, p, same, al_list, al_path) ==
    bisect_path_right_loop(ps, p, same, al_list, al_path, 0, Len(ps), {})

\* The while loop of bisect_dirblock_c; cur is dirblocks[_mid][0].
RECURSIVE bisect_dirblock_loop(_, _, _, _, _, _, _, _)
bisect_dirblock_loop(blocks, d, same, al_list, al_d, lo, hi, read) ==
    IF lo < hi
    THEN LET mid == (lo + hi) \div 2
             cur == blocks[mid + 1][1]
         IN  IF cmp_by_dirs(cur, al_list, d, al_d, (mid + 1) \in same) < 0
             THEN bisect_dirblock_loop(blocks, d, same, al_list, al_d,
                                       mid + 1, hi, read \cup {mid})
             ELSE bisect_dirblock_loop(blocks, d, same, al_list, al_d,
                                       lo, mid, read \cup {mid})
    ELSE [lo |-> lo, seen |-> read]

\* bisect_dirblock_c that always searches up to len(dirblocks).
bisect_dirblock_c_ignores_hi(blocks, d, same, al_list, al_d, lo, hi) ==
    bisect_dirblock_loop(blocks, d, same, al_list, al_d, lo, Len(blocks), {})

\* bisect_dirblock_c(dirblocks, dirname, lo=0, hi=None).
bisect_dirblock_c(blocks, d, same, al_list, al_d, lo, hi) ==
    LET hi0 == IF hi = PyNone THEN Len(blocks) ELSE hi
    IN  bisect_dirblock_loop(blocks, d, same, al_list, al_d, lo, hi0, {})

\* A list the callers keep sorted under _cmp_path_by_dirblock.
SortedPaths(ps, al) ==
    \A i, j \in 1..Len(ps) :
        i < j => cmp_path_by_dirblock(ps[i], al, ps[j], al, FALSE) <= 0

\* Dirblocks the callers keep sorted under cmp_by_dirs on the dirname.
SortedDirblocks(blocks, al) ==
    \A i, j \in 1..Len(blocks) :
        i < j => cmp_by_dirs(blocks[i][1], al, blocks[j][1], al, FALSE) <= 0

\* A (dirname, rows) tuple; the rows play no part in the search.
DirblockOf(d) == <<d, <<>>>>

\* No comparison call is in progress.
CmpIdle ==
    /\ path1 = <<>>
    /\ path2 = <<>>
    /\ same_obj = FALSE

InitBisectPaths ==
    /\ paths \in SeqsUpTo(BisectPaths, MaxList)
    /\ SortedPaths(paths, aligned2)
    /\ path \in BisectPaths
    /\ ident \in SUBSET {i \in 1..Len(paths) : paths[i] = path}
    /\ dirblocks = <<>>
    /\ dirname = <<>>
    /\ lo_arg = 0
    /\ hi_arg = PyNone

InitBisectDirblocks ==
    /\ dirblocks \in {[i \in 1..Len(ds) |-> DirblockOf(ds[i])] :
                          ds \in SeqsUpTo(BisectPaths, MaxList)}
    /\ SortedDirblocks(dirblocks, aligned2)
    /\ dirname \in BisectPaths
    /\ ident \in SUBSET {i \in 1..Len(dirblocks) : dirblocks[i][1] = dirname}
    /\ lo_arg \in 0..Len(dirblocks)
    /\ hi_arg \in {PyNone} \cup (lo_arg..Len(dirblocks))
    /\ paths = <<>>
    /\ path = <<>>

\* Python types the arguments are drawn from.
SeqTypes == {"list", "tuple"}
TargetTypes == {"str", "unicode"}

InitBisect ==
    /\ pc = "start"
    /\ seq_type \in SeqTypes
    /\ target_type \in TargetTypes
    /\ op = "none"
    /\ result = 0
    /\ seen = {}
    /\ aligned1 \in BOOLEAN
    /\ aligned2 \in BOOLEAN
    /\ CmpIdle
    /\ ReaderIdle
    /\ OrderIdle
    /\ LeafIdle
    /\ \/ InitBisectPaths
       \/ InitBisectDirblocks
    /\ (seq_type # "list" \/ target_type # "str") =>
           /\ aligned1 /\ aligned2
           /\ ident = {}
           /\ lo_arg = 0
           /\ hi_arg = PyNone
    /\ passes = 0

\* A type test that looks at the sequence only.
TypeCheckFailsSeqOnly(seq_t, target_t) == seq_t # "list"

\* The PyList_CheckExact and PyString_CheckExact tests that open each
\* bisection, TRUE when one of them raises TypeError.
TypeCheckFails(seq_t, target_t) == seq_t # "list" \/ target_t # "str"

CallBisectPathLeft ==
    /\ pc = "start"
    /\ IF TypeCheckFails(seq_type, target_type)
       THEN /\ pc' = "type_error"
            /\ UNCHANGED <<result, seen>>
       ELSE LET r == bisect_path_left_c(paths, path, ident, aligned2, aligned1)
            IN  /\ pc' = "done"
                /\ result' = r.lo
                /\ seen' = r.seen
    /\ op' = "bisect_path_left"
    /\ UNCHANGED <<aligned1, aligned2, cmp_vars, paths, path, dirblocks,
                   dirname, ident, lo_arg, hi_arg, seq_type, target_type,
                   reader_vars, order_vars, leaf_vars>>
    /\ UNCHANGED passes

CallBisectPathRight ==
    /\ pc = "start"
    /\ IF TypeCheckFails(seq_type, target_type)
       THEN /\ pc' = "type_error"
            /\ UNCHANGED <<result, seen>>
       ELSE LET r == bisect_path_right_c(paths, path, ident, aligned2, aligned1)
            IN  /\ pc' = "done"
                /\ result' = r.lo
                /\ seen' = r.seen
    /\ op' = "bisect_path_right"
    /\ UNCHANGED <<aligned1, aligned2, cmp_vars, paths, path, dirblocks,
                   dirname, ident, lo_arg, hi_arg, seq_type, target_type,
                   reader_vars, order_vars, leaf_vars>>
    /\ UNCHANGED passes

CallBisectDirblock ==
    /\ pc = "start"
    /\ IF TypeCheckFails(seq_type, target_type)
       THEN /\ pc' = "type_error"
            /\ UNCHANGED <<result, seen>>
       ELSE LET r == bisect_dirblock_c(dirblocks, dirname, ident, aligned2,
                                       aligned1, lo_arg, hi_arg)
            IN  /\ pc' = "done"
                /\ result' = r.lo
                /\ seen' = r.seen
    /\ op' = "bisect_dirblock"
    /\ UNCHANGED <<aligned1, aligned2, cmp_vars, paths, path, dirblocks,
                   dirname, ident, lo_arg, hi_arg, seq_type, target_type,
                   reader_vars, order_vars, leaf_vars>>
    /\ UNCHANGED passes

NextBisect ==
    \/ CallBisectPathLeft
    \/ CallBisectPathRight
    \/ CallBisectDirblock

SpecBisect == InitBisect /\ [][NextBisect]_vars

\* ---------------------------------------------------------------- Reader

\* memchr(text + cur, c, end - cur) as an offset into text, NULLPTR for NULL.
RECURSIVE memchr(_, _, _)
memchr(s, c, pos) ==
    IF pos >= Len(s) THEN NULLPTR
    ELSE IF s[pos + 1] = c THEN pos
    ELSE memchr(s, c, pos + 1)

\* A get_next that takes the rest of the buffer as the field when no NUL
\* follows.
get_next_to_end(s, cur) ==
    IF cur = NULLPTR
    THEN [ok |-> FALSE, err |-> "cur_str is NULL", start |-> cur,
          size |-> 0, cur |-> cur]
    ELSE IF cur >= Len(s)
    THEN [ok |-> FALSE, err |-> "no chars left", start |-> cur,
          size |-> 0, cur |-> cur]
    ELSE LET found == memchr(s, NUL, cur)
         IN  IF found = NULLPTR
             THEN [ok |-> TRUE, err |-> "none", start |-> cur,
                   size |-> Len(s) - cur, cur |-> Len(s)]
             ELSE [ok |-> TRUE, err |-> "none", start |-> cur,
                   size |-> found - cur, cur |-> found + 1]

\* Reader.get_next: the field starting at cur.  ok is FALSE when it raises;
\* cur is the value self.cur_cstr is left with.
get_next(s, cur) ==
    IF cur = NULLPTR
    THEN [ok |-> FALSE, err |-> "cur_str is NULL", start |-> cur,
          size |-> 0, cur |-> cur]
    ELSE IF cur >= Len(s)
    THEN [ok |-> FALSE, err |-> "no chars left", start |-> cur,
          size |-> 0, cur |-> cur]
    ELSE LET found == memchr(s, NUL, cur)
         IN  IF found = NULLPTR
             THEN [ok |-> FALSE, err |-> "no trailing NULL", start |-> cur,
                   size |-> 0, cur |-> NULLPTR]
             ELSE [ok |-> TRUE, err |-> "none", start |-> cur,
                   size |-> found - cur, cur |-> found + 1]

\* The bytes of a field and the NUL that ends it.
FieldStrWithNul(s, f) == SubSeq(s, f.start + 1, f.start + f.size + 1)

\* safe_string_from_size(next, size): the bytes of a field.
FieldStr(s, f) == SubSeq(s, f.start + 1, f.start + f.size)

\* The byte a field pointer points at: the field's first byte, or the NUL
\* that ends an empty field.
FirstByte(s, f) == s[f.start + 1]

\* The test Reader._init raises on.
InitRaises(s, first) ==
    FirstByte(s, first) # NUL /\ first.size = 0

\* Reader._init: consume the first field.
reader_init(s, cur) ==
    LET first == get_next(s, cur)
    IN  IF ~first.ok THEN [ok |-> FALSE, err |-> first.err, cur |-> first.cur]
        ELSE IF InitRaises(s, first)
        THEN [ok |-> FALSE, err |-> "first character should be null",
              cur |-> first.cur]
        ELSE [ok |-> TRUE, err |-> "none", cur |-> first.cur]

\* n successive get_next calls: the fields read, or the first failure.
RECURSIVE get_fields(_, _, _, _)
get_fields(s, cur, n, acc) ==
    IF n = 0 THEN [ok |-> TRUE, err |-> "none", cur |-> cur, fields |-> acc]
    ELSE LET f == get_next(s, cur)
         IN  IF ~f.ok
             THEN [ok |-> FALSE, err |-> f.err, cur |-> f.cur, fields |-> acc]
             ELSE get_fields(s, f.cur, n - 1, Append(acc, f))

CH_0 == 48
CH_9 == 57

\* strtoul(cstr, NULL, 10) on a field: the value of its leading decimal digits.
RECURSIVE strtoul(_, _)
strtoul(str, acc) ==
    IF str # <<>> /\ Head(str) >= CH_0 /\ Head(str) <= CH_9
    THEN strtoul(Tail(str), 10 * acc + (Head(str) - CH_0))
    ELSE acc

\* One tree's columns, from the five fields starting at fields[k].
TreeColumns(s, fields, k) ==
    << FieldStr(s, fields[k]),                  \* minikind
       FieldStr(s, fields[k + 1]),              \* fingerprint
       strtoul(FieldStr(s, fields[k + 2]), 0),  \* size
       FirstByte(s, fields[k + 3]) = CH_y,      \* executable
       FieldStr(s, fields[k + 4]) >>            \* packed_stat or revision_id

\* A trailing-field test that looks at the first byte only.
BadTrailingFirstByte(s, trailing) == FirstByte(s, trailing) # LF

\* The test on the trailing field that Reader._get_entry raises on.
BadTrailing(s, trailing) ==
    trailing.size # 1 \/ FirstByte(s, trailing) # LF

\* Reader._get_entry(num_trees, &current_dirname, &new_block).
get_entry(s, cur, n_trees, cur_dirname) ==
    LET r == get_fields(s, cur, 3 + 5 * n_trees + 1, <<>>)
    IN  IF ~r.ok
        THEN [ok |-> FALSE, err |-> r.err, cur |-> r.cur]
        ELSE
          LET d == FieldStr(s, r.fields[1])
              new_block == Len(d) # Len(cur_dirname) \/ d # cur_dirname
              dir == IF new_block THEN d ELSE cur_dirname
              key == <<dir, FieldStr(s, r.fields[2]), FieldStr(s, r.fields[3])>>
              trees == [i \in 1..n_trees |->
                            TreeColumns(s, r.fields, 3 + 5 * (i - 1) + 1)]
              trailing == r.fields[3 + 5 * n_trees + 1]
          IN  IF BadTrailing(s, trailing)
              THEN [ok |-> FALSE, err |-> "expected to end on LF",
                    cur |-> r.cur]
              ELSE [ok |-> TRUE, err |-> "none", cur |-> r.cur,
                    entry |-> <<key, trees>>, dirname |-> dir,
                    new_block |-> new_block]

\* A row-count test that only notices too few rows.
CountMismatchOnlyFewer(count, expected) == count < expected

\* A row-count test that only notices too many rows.
CountMismatchOnlyMore(count, expected) == count > expected

\* The row-count test that ends Reader._parse_dirblocks.
CountMismatch(count, expected) == count # expected

\* Rows with an empty basename, in order.
RECURSIVE RootEntries(_)
RootEntries(rows) ==
    IF rows = <<>> THEN <<>>
    ELSE IF Head(rows)[1][2] = <<>>
    THEN <<Head(rows)>> \o RootEntries(Tail(rows))
    ELSE RootEntries(Tail(rows))

\* Rows with a basename, in order.
RECURSIVE ContentEntries(_)
ContentEntries(rows) ==
    IF rows = <<>> THEN <<>>
    ELSE IF Head(rows)[1][2] # <<>>
    THEN <<Head(rows)>> \o ContentEntries(Tail(rows))
    ELSE ContentEntries(Tail(rows))

\* state._split_root_dirblock_into_contents(): the caller's split of block 0
\* into the root entries (block 0) and the contents of the root (block 1).
split_root_dirblock_into_contents(blocks) ==
    [blocks EXCEPT ![1] = <<<<>>, RootEntries(blocks[1][2])>>,
                   ![2] = <<<<>>, ContentEntries(blocks[1][2])>>]

\* ------------------------------------------------------ dirstate buffers

CH_1 == 49

\* One tree's fields as written: minikind, fingerprint, size, executable, info.
Col(size, executable) == <<<<CH_a>>, <<>>, size, executable, <<CH_a>>>>

\* The rows the buffers are built from: (dirname, name, file_id, trees).
RowTemplates ==
    { << <<>>, <<>>, <<CH_a>>,
         << Col(<<>>, <<CH_y>>), Col(<<CH_1>>, <<CH_a>>) >> >>,
      << <<>>, <<CH_a>>, <<CH_a>>,
         << Col(<<CH_1>>, <<>>), Col(<<CH_1, CH_0>>, <<CH_y>>) >> >>,
      << <<CH_a>>, <<CH_a>>, <<CH_b>>,
         << Col(<<CH_1, CH_a>>, <<CH_y, CH_y>>), Col(<<>>, <<CH_a>>) >> >> }

\* Every field followed by NUL.
RECURSIVE NulTerminated(_)
NulTerminated(fields) ==
    IF fields = <<>> THEN <<>>
    ELSE Head(fields) \o <<NUL>> \o NulTerminated(Tail(fields))

RECURSIVE TreeFields(_, _)
TreeFields(trees, n) ==
    IF n = 0 THEN <<>>
    ELSE TreeFields(trees, n - 1) \o trees[n]

\* A row as the parser reads it: its fields, then the LF field ("lf_nul"), or
\* with a bare LF ending the row ("lf"), or with the LF field left empty
\* ("no_last_lf").
LayRow(row, n, layout) ==
    NulTerminated(<<row[1], row[2], row[3]>> \o TreeFields(row[4], n))
        \o (CASE layout = "lf_nul" -> <<LF, NUL>>
              [] layout = "lf" -> <<LF>>
              [] OTHER -> <<NUL>>)

\* Under "no_last_lf" only the last row lacks its LF.
RECURSIVE LayRows(_, _, _)
LayRows(rows, n, layout) ==
    IF rows = <<>> THEN <<>>
    ELSE LayRow(Head(rows), n,
                IF layout = "no_last_lf" /\ Len(rows) > 1
                THEN "lf_nul" ELSE layout)
             \o LayRows(Tail(rows), n, layout)

\* The buffer: the field left over from the header, the rows, and the last
\* cut bytes missing.
LayBuffer(in) ==
    LET whole == in.lead \o <<NUL>> \o LayRows(in.rows, in.trees, in.layout)
        keep == IF in.cut > Len(whole) THEN 0 ELSE Len(whole) - in.cut
    IN  SubSeq(whole, 1, keep)

Max(a, b) == IF a > b THEN a ELSE b

InitReader ==
    /\ pc = "read"
    /\ op = "read_dirblocks"
    /\ result = 0
    /\ aligned1 = TRUE
    /\ aligned2 = TRUE
    /\ CmpIdle
    /\ BisectIdle
    /\ OrderIdle
    /\ LeafIdle
    /\ input \in [rows : SeqsUpTo(RowTemplates, MaxRows),
                  trees : {1, 2},
                  lead : {<<>>, <<CH_a>>},
                  layout : {"lf_nul", "lf", "no_last_lf"},
                  cut : {0, 1, 2}]
    /\ text = LayBuffer(input)
    /\ cur_cstr = 0
    /\ num_trees = input.trees
    /\ expected_entry_count \in
           Max(0, Len(input.rows) - 1)..(Len(input.rows) + 1)
    /\ entry_count = 0
    /\ current_dirname = <<>>
    /\ current_block = 1
    /\ state_dirblocks = <<>>
    /\ dirblock_state = "NOT_IN_MEMORY"
    /\ err = "none"
    /\ passes = 0

\* _read_dirblocks_c up to the loop of _parse_dirblocks: Reader(text),
\* self._init(), and the two empty root blocks.
ParseStart ==
    /\ pc = "read"
    /\ LET r == reader_init(text, cur_cstr)
       IN  IF ~r.ok
           THEN /\ pc' = "error"
                /\ err' = r.err
                /\ cur_cstr' = r.cur
                /\ UNCHANGED <<state_dirblocks, current_block,
                               current_dirname, entry_count>>
           ELSE /\ pc' = "loop"
                /\ cur_cstr' = r.cur
                /\ state_dirblocks' = << <<<<>>, <<>>>>, <<<<>>, <<>>>> >>
                /\ current_block' = 1
                /\ current_dirname' = <<>>
                /\ entry_count' = 0
                /\ UNCHANGED err
    /\ UNCHANGED <<op, result, aligned1, aligned2, cmp_vars, bisect_vars,
                   order_vars, leaf_vars, input, text, num_trees,
                   expected_entry_count, dirblock_state>>
    /\ UNCHANGED passes

\* A new block that is given the empty name whatever the dirname of the row.
append_dirblock_unnamed(blocks, dir) == Append(blocks, <<<<>>, <<>>>>)

\* The new (dirname, []) block _parse_dirblocks appends to state._dirblocks.
append_dirblock(blocks, dir) == Append(blocks, <<dir, <<>>>>)

\* One pass of the while loop of _parse_dirblocks.
ParseEntry ==
    /\ pc = "loop"
    /\ cur_cstr < Len(text)
    /\ LET e == get_entry(text, cur_cstr, num_trees, current_dirname)
       IN  IF ~e.ok
           THEN /\ pc' = "error"
                /\ err' = e.err
                /\ cur_cstr' = e.cur
                /\ UNCHANGED <<state_dirblocks, current_block,
                               current_dirname, entry_count>>
           ELSE LET blocks == IF e.new_block
                              THEN append_dirblock(state_dirblocks, e.dirname)
                              ELSE state_dirblocks
                    b == IF e.new_block THEN Len(blocks) ELSE current_block
                IN  /\ state_dirblocks' =
                          [blocks EXCEPT ![b][2] = Append(@, e.entry)]
                    /\ current_block' = b
                    /\ current_dirname' = e.dirname
                    /\ entry_count' = entry_count + 1
                    /\ cur_cstr' = e.cur
                    /\ UNCHANGED <<pc, err>>
    /\ UNCHANGED <<op, result, aligned1, aligned2, cmp_vars, bisect_vars,
                   order_vars, leaf_vars, input, text, num_trees,
                   expected_entry_count, dirblock_state>>
    /\ passes' = passes + 1

\* The end of _parse_dirblocks and of _read_dirblocks_c: the count test, the
\* split of the root block, and the state flag.
ParseFinish ==
    /\ pc = "loop"
    /\ ~(cur_cstr < Len(text))
    /\ IF CountMismatch(entry_count, expected_entry_count)
       THEN /\ pc' = "error"
            /\ err' = "wrong number of entries"
            /\ UNCHANGED <<state_dirblocks, dirblock_state>>
       ELSE /\ pc' = "done"
            /\ state_dirblocks' =
                   split_root_dirblock_into_contents(state_dirblocks)
            /\ dirblock_state' = "IN_MEMORY_UNMODIFIED"
            /\ UNCHANGED err
    /\ UNCHANGED <<op, result, aligned1, aligned2, cmp_vars, bisect_vars,
                   order_vars, leaf_vars, input, text, cur_cstr, num_trees,
                   expected_entry_count, entry_count, current_dirname,
                   current_block>>
    /\ UNCHANGED passes

NextReader ==
    \/ ParseStart
    \/ ParseEntry
    \/ ParseFinish

SpecReader == InitReader /\ [][NextReader]_vars

\* ------------------------------------------------- claims on compare_by_dirs

Sign(x) == IF x < 0 THEN -1 ELSE IF x > 0 THEN 1 ELSE 0

\* path.split('/'): the components of a path.
RECURSIVE Split(_)
Split(p) ==
    IF \E i \in 1..Len(p) : p[i] = SLASH
    THEN LET i == CHOOSE i \in 1..Len(p) :
                    p[i] = SLASH /\ \A j \in 1..(i - 1) : p[j] # SLASH
         IN  <<SubSeq(p, 1, i - 1)>> \o Split(SubSeq(p, i + 1, Len(p)))
    ELSE <<p>>

\* cmp() of two byte strings: unsigned bytes, a proper prefix first.
RECURSIVE CmpStr(_, _)
CmpStr(a, b) ==
    IF a = <<>> /\ b = <<>> THEN 0
    ELSE IF a = <<>> THEN -1
    ELSE IF b = <<>> THEN 1
    ELSE IF Head(a) < Head(b) THEN -1
    ELSE IF Head(a) > Head(b) THEN 1
    ELSE CmpStr(Tail(a), Tail(b))

\* cmp() of two component sequences: lexicographic, a proper prefix first.
RECURSIVE CmpComponents(_, _)
CmpComponents(xs, ys) ==
    IF xs = <<>> /\ ys = <<>> THEN 0
    ELSE IF xs = <<>> THEN -1
    ELSE IF ys = <<>> THEN 1
    ELSE IF CmpStr(Head(xs), Head(ys)) # 0 THEN CmpStr(Head(xs), Head(ys))
    ELSE CmpComponents(Tail(xs), Tail(ys))

CmpByDirsDone == pc = "done" /\ op = "cmp_by_dirs"

\* C1: compare_by_dirs(p, q) has the sign of the lexicographic comparison of
\* p.split('/') and q.split('/'), and is 0 exactly when p and q are the same
\* bytes.
C1_SplitOrder ==
    CmpByDirsDone =>
        /\ Sign(result) = CmpComponents(Split(path1), Split(path2))
        /\ (result = 0) <=> (path1 = path2)

\* C1 witness: a '/' against a lower byte decided the comparison.
C1_Witness ==
    /\ CmpByDirsDone
    /\ path1 = <<CH_a, DASH, CH_a>>
    /\ path2 = <<CH_a, SLASH, CH_a>>
    /\ result = 1

\* C2: compare_by_dirs(p, q) = -compare_by_dirs(q, p), also for an empty
\* path and for one object passed twice.
C2_Antisymmetry ==
    CmpByDirsDone =>
        result = -cmp_by_dirs_c(path2, aligned2, path1, aligned1, same_obj)

\* C2 witness: an empty path against a path with a separator.
C2_Witness ==
    /\ CmpByDirsDone
    /\ path1 = <<>>
    /\ path2 = <<SLASH, CH_a>>
    /\ result = -1

\* C3 as stated: a < a-b, a-b < a/b and a < a/b under compare_by_dirs.
C3_Original ==
    CmpByDirsDone =>
        /\ (path1 = CalibA /\ path2 = CalibADashB) => result < 0
        /\ (path1 = CalibADashB /\ path2 = CalibASlashB) => result < 0
        /\ (path1 = CalibA /\ path2 = CalibASlashB) => result < 0

\* C3: compare_by_dirs orders the calibration paths a < a/b < a-b:
\* compare_by_dirs("a", "a-b") < 0, compare_by_dirs("a-b", "a/b") > 0 and
\* compare_by_dirs("a", "a/b") < 0.
C3_Calibration ==
    CmpByDirsDone =>
        /\ (path1 = CalibA /\ path2 = CalibADashB) => result < 0
        /\ (path1 = CalibADashB /\ path2 = CalibASlashB) => result > 0
        /\ (path1 = CalibA /\ path2 = CalibASlashB) => result < 0

\* C3 witness: "a-b" was compared with "a/b".
C3_Witness ==
    /\ CmpByDirsDone
    /\ path1 = CalibADashB
    /\ path2 = CalibASlashB
    /\ result = 1

\* ------------------------------------------------------ claims on bisection

\* _cmp_path_by_dirblock(paths[i], path) as the running call computes it.
CmpExisting(i) ==
    cmp_path_by_dirblock(paths[i], aligned2, path, aligned1, i \in ident)

\* paths with path inserted at 0-based index i.
InsertAt(ps, i, p) ==
    SubSeq(ps, 1, i) \o <<p>> \o SubSeq(ps, i + 1, Len(ps))

BisectLeftDone == pc = "done" /\ op = "bisect_path_left"
BisectRightDone == pc = "done" /\ op = "bisect_path_right"
BisectDirblockDone == pc = "done" /\ op = "bisect_dirblock"

\* C4: on a sorted list bisect_path_left returns idx in [0, len(paths)] with
\* every element of paths[:idx] strictly before the target and every element
\* of paths[idx:] equal to or after it.
C4_BisectLeft ==
    BisectLeftDone =>
        /\ result \in 0..Len(paths)
        /\ \A i \in 1..Len(paths) :
              IF i <= result THEN CmpExisting(i) < 0 ELSE CmpExisting(i) >= 0

\* C4 witness: the target occurs twice and the index is left of both.
C4_Witness ==
    /\ BisectLeftDone
    /\ Len(paths) = 3
    /\ paths[2] = path
    /\ paths[3] = path
    /\ paths[1] # path
    /\ result = 1

\* C5: on a sorted list bisect_path_right returns idx in [0, len(paths)] with
\* every element of paths[:idx] before or equal to the target and every
\* element of paths[idx:] strictly after it.
C5_BisectRight ==
    BisectRightDone =>
        /\ result \in 0..Len(paths)
        /\ \A i \in 1..Len(paths) :
              IF i <= result THEN CmpExisting(i) <= 0 ELSE CmpExisting(i) > 0

\* C5 witness: the target occurs twice and the index is right of both.
C5_Witness ==
    /\ BisectRightDone
    /\ Len(paths) = 3
    /\ paths[1] = path
    /\ paths[2] = path
    /\ paths[3] # path
    /\ result = 2

\* C6: on a sorted list bisect_path_left <= bisect_path_right, and the list
\* with the target inserted at either index is still sorted.
C6_LeftRightInsert ==
    /\ BisectLeftDone =>
          /\ result <= bisect_path_right_c(paths, path, ident,
                                           aligned2, aligned1).lo
          /\ SortedPaths(InsertAt(paths, result, path), aligned2)
    /\ BisectRightDone =>
          /\ bisect_path_left_c(paths, path, ident,
                                aligned2, aligned1).lo <= result
          /\ SortedPaths(InsertAt(paths, result, path), aligned2)

\* C6 witness: the right index was found strictly inside a list that holds
\* the target, with an element after it.
C6_Witness ==
    /\ BisectRightDone
    /\ Len(paths) = 3
    /\ paths[2] = path
    /\ result = 2
    /\ bisect_path_left_c(paths, path, ident, aligned2, aligned1).lo = 1

\* Number of elements of ps that are byte-identical to p.
Occurrences(ps, p) == Cardinality({i \in 1..Len(ps) : ps[i] = p})

\* C7: if the target occurs exactly k times in the sorted list then
\* bisect_path_right - bisect_path_left = k.
C7_CountEquals ==
    BisectRightDone =>
        result - bisect_path_left_c(paths, path, ident, aligned2, aligned1).lo
            = Occurrences(paths, path)

\* dirblocks[i][0] compared with dirname as the running call computes it.
CmpBlock(i) ==
    cmp_by_dirs(dirblocks[i][1], aligned2, dirname, aligned1, i \in ident)

\* The search window's upper end.
HiOf == IF hi_arg = PyNone THEN Len(dirblocks) ELSE hi_arg

\* C8: on dirblocks sorted by compare_by_dirs and a window lo <= hi within the
\* list, bisect_dirblock returns idx in [lo, hi] with the names of blocks
\* [lo, idx) < dirname and of blocks [idx, hi) >= dirname, and reads no block
\* outside [lo, hi).
C8_BisectDirblock ==
    BisectDirblockDone =>
        /\ lo_arg <= result
        /\ result <= HiOf
        /\ \A i \in (lo_arg + 1)..HiOf :
              IF i <= result THEN CmpBlock(i) < 0 ELSE CmpBlock(i) >= 0
        /\ \A k \in seen : lo_arg <= k /\ k < HiOf

\* C8 witness: a window strictly inside the list whose upper end stopped the
\* search, although a block beyond it is also below dirname.
C8_Witness ==
    /\ BisectDirblockDone
    /\ Len(dirblocks) = 3
    /\ lo_arg = 1
    /\ hi_arg = 2
    /\ result = 2
    /\ seen = {1}
    /\ CmpBlock(3) < 0

\* -------------------------------------------------- claims on the Reader

\* Rows held by all directory blocks together.
RECURSIVE TotalRows(_)
TotalRows(blocks) ==
    IF blocks = <<>> THEN 0
    ELSE Len(Head(blocks)[2]) + TotalRows(Tail(blocks))

\* The buffer was laid out whole, as the parser reads it: every row written
\* can be parsed.
WholeBuffer == input.layout = "lf_nul" /\ input.cut = 0

\* C9: parse_dirblocks succeeds only if the rows it extracted, summed over
\* all blocks, number the expected count; a buffer whose parsable rows number
\* something else ends in the count-mismatch error, with no flag set.
C9_CountChecked ==
    /\ pc = "done" =>
          /\ entry_count = expected_entry_count
          /\ TotalRows(state_dirblocks) = expected_entry_count
    /\ (pc \in {"done", "error"} /\ WholeBuffer
            /\ Len(input.rows) # expected_entry_count) =>
          /\ pc = "error"
          /\ err = "wrong number of entries"
          /\ entry_count = Len(input.rows)
          /\ dirblock_state = "NOT_IN_MEMORY"

\* C9 witness: 4 parsable rows with an expected count of 5.
C9_Witness ==
    /\ pc = "error"
    /\ err = "wrong number of entries"
    /\ WholeBuffer
    /\ Len(input.rows) = 4
    /\ entry_count = 4
    /\ expected_entry_count = 5

\* C10: on a buffer whose leading NUL-terminated field is not empty the parse
\* never succeeds and never produces a row: it proceeds only when the
\* leading field is empty.
C10_InitRejectsNonEmpty ==
    (text # <<>> /\ text[1] # NUL) =>
        /\ pc # "done"
        /\ entry_count = 0

\* The last row written lacks its final LF: the LF field is cut off with its
\* NUL, or is left empty.
LastLFMissing ==
    /\ input.rows # <<>>
    /\ \/ input.layout = "lf_nul" /\ input.cut = 2
       \/ input.layout = "lf" /\ input.cut = 1
       \/ input.layout = "no_last_lf" /\ input.cut = 0

\* The errors get_entry raises on a malformed record.
MalformedRecord ==
    {"no chars left", "no trailing NULL", "expected to end on LF"}

\* cur_cstr stands right behind the last row returned.
AfterRow ==
    /\ entry_count > 0
    /\ pc \in {"loop", "done"} \/ err = "wrong number of entries"

\* C11: a row is returned only if the field after its last tree column is
\* the single byte LF, and a buffer whose last row lacks its final LF ends
\* in a malformed-record error instead of a shorter result.
C11_TrailingLF ==
    /\ AfterRow =>
          /\ text[cur_cstr] = NUL
          /\ text[cur_cstr - 1] = LF
          /\ text[cur_cstr - 2] = NUL
    /\ (pc \in {"done", "error"} /\ LastLFMissing) =>
          /\ pc = "error"
          /\ err \in MalformedRecord
          /\ dirblock_state = "NOT_IN_MEMORY"

\* C11 witness: the first of two rows was returned, the second, left with an
\* empty field where its LF belongs, was refused.
C11_Witness ==
    /\ pc = "error"
    /\ err = "expected to end on LF"
    /\ input.layout = "no_last_lf"
    /\ input.cut = 0
    /\ input.lead = <<>>
    /\ Len(input.rows) = 2
    /\ entry_count = 1
    /\ text[cur_cstr] = NUL
    /\ text[cur_cstr - 1] = NUL

\* The dirnames of the blocks, in block order.
BlockNames(blocks) == [i \in 1..Len(blocks) |-> blocks[i][1]]

\* The dirnames of the rows held by the blocks, in block order.
RECURSIVE RowDirnames(_)
RowDirnames(blocks) ==
    IF blocks = <<>> THEN <<>>
    ELSE [i \in 1..Len(Head(blocks)[2]) |-> Head(blocks)[2][i][1][1]]
             \o RowDirnames(Tail(blocks))

NonDecreasing(names) ==
    \A i \in 1..(Len(names) - 1) :
        cmp_by_dirs(names[i], TRUE, names[i + 1], TRUE, FALSE) <= 0

\* C12 as stated: the block dirnames of every accepted buffer are
\* non-decreasing under compare_by_dirs.
C12_Original ==
    pc = "done" => NonDecreasing(BlockNames(state_dirblocks))

\* C12: the block dirnames of an accepted buffer are non-decreasing under
\* compare_by_dirs whenever the dirnames of its rows are; the parser keeps
\* the order of the rows and does not test it.
C12_SortedRowsSortedBlocks ==
    (pc = "done" /\ NonDecreasing(RowDirnames(state_dirblocks)))
        => NonDecreasing(BlockNames(state_dirblocks))

\* C12 witness: rows of '' and then of 'a', accepted, blocks '', '', 'a'.
C12_Witness ==
    /\ pc = "done"
    /\ entry_count = 3
    /\ NonDecreasing(RowDirnames(state_dirblocks))
    /\ BlockNames(state_dirblocks) = << <<>>, <<>>, <<CH_a>> >>
    /\ Len(state_dirblocks[3][2]) = 2

\* C13 as stated: a failed parse leaves the directory blocks of the state as
\* they were before the call, and the flag unset.
C13_Original ==
    pc = "error" =>
        /\ state_dirblocks = <<>>
        /\ dirblock_state = "NOT_IN_MEMORY"

\* C13: the state flag is set only by a parse that read the whole buffer and
\* counted the expected rows; a failed parse leaves it unset, and leaves in
\* the state either the blocks from before the call (failure of the leading
\* field) or the blocks built from the rows read up to the failure.
C13_FlagOnlyAfterSuccess ==
    /\ dirblock_state = "IN_MEMORY_UNMODIFIED" =>
          /\ pc = "done"
          /\ ~(cur_cstr < Len(text))
          /\ entry_count = expected_entry_count
    /\ pc = "error" =>
          /\ dirblock_state = "NOT_IN_MEMORY"
          /\ \/ state_dirblocks = <<>> /\ entry_count = 0
             \/ /\ Len(state_dirblocks) >= 2
                /\ TotalRows(state_dirblocks) = entry_count

\* C13 witness: the third row is malformed; the two rows before it stay in
\* the blocks of the state, the flag is unset.
C13_Witness ==
    /\ pc = "error"
    /\ err \in MalformedRecord
    /\ entry_count = 2
    /\ TotalRows(state_dirblocks) = 2
    /\ dirblock_state = "NOT_IN_MEMORY"

\* ------------------------------------------------- B-tree leaf serializer

TAB == 9
CR == 13

\* "type=leaf"
TypeLeaf == <<116, 121, 112, 101, 61, 108, 101, 97, 102>>

\* sep.join(parts)
RECURSIVE Join(_, _)
Join(parts, sep) ==
    IF parts = <<>> THEN <<>>
    ELSE IF Len(parts) = 1 THEN parts[1]
    ELSE parts[1] \o <<sep>> \o Join(Tail(parts), sep)

\* Sum of the values of f over 1..n.
RECURSIVE SumTo(_, _)
SumTo(f, n) == IF n = 0 THEN 0 ELSE f[n] + SumTo(f, n - 1)

\* The bytes _flatten_node counts for one reference, one reference list and
\* all the reference lists: a separator less than the parts wherever there
\* is a part, and the bytes of the reference bits.
RefLen(reference) ==
    IF Len(reference) > 0
    THEN (Len(reference) - 1)
             + SumTo([i \in 1..Len(reference) |-> Len(reference[i])],
                     Len(reference))
    ELSE 0

\* A count for one reference list that leaves out the CRs between its
\* references.
RefListLenNoCR(ref_list) ==
    SumTo([i \in 1..Len(ref_list) |-> RefLen(ref_list[i])], Len(ref_list))

RefListLen(ref_list) ==
    IF Len(ref_list) > 0
    THEN (Len(ref_list) - 1)
             + SumTo([i \in 1..Len(ref_list) |-> RefLen(ref_list[i])],
                     Len(ref_list))
    ELSE 0

refs_len(ref_lists) ==
    IF Len(ref_lists) > 0
    THEN (Len(ref_lists) - 1)
             + SumTo([i \in 1..Len(ref_lists) |-> RefListLen(ref_lists[i])],
                     Len(ref_lists))
    ELSE 0

\* Write loops that put CR between the reference lists too.
FlatRefsAllCR(ref_lists) ==
    Join([i \in 1..Len(ref_lists) |->
              Join([j \in 1..Len(ref_lists[i]) |->
                        Join(ref_lists[i][j], NUL)], CR)], CR)

\* The bytes the write loops of _flatten_node put out for the reference
\* lists: TAB between lists, CR between references, NUL between bits.
FlatRefs(ref_lists) ==
    Join([i \in 1..Len(ref_lists) |->
              Join([j \in 1..Len(ref_lists[i]) |->
                        Join(ref_lists[i][j], NUL)], CR)], TAB)

\* An arity test that wants exactly 3 elements without reference lists.
BadArityExact(node_len, have_reference_lists) ==
    IF have_reference_lists THEN node_len # 4 ELSE node_len # 3

\* The arity test of _flatten_node, TRUE when it raises ValueError.
BadArity(node_len, have_reference_lists) ==
    IF have_reference_lists THEN node_len # 4 ELSE node_len < 3

\* _flatten_node(node, reference_lists) on a tuple of tuples and strings.
flatten_node(node, have_reference_lists) ==
    IF BadArity(Len(node), have_reference_lists)
    THEN [ok |-> FALSE, err |-> "ValueError"]
    ELSE
      LET string_key == Join(node[2], NUL)
          rl == IF have_reference_lists THEN refs_len(node[4]) ELSE 0
          line == string_key \o <<NUL>>
                      \o (IF rl > 0 THEN FlatRefs(node[4]) ELSE <<>>)
                      \o <<NUL>> \o node[3] \o <<LF>>
      IN  [ok |-> TRUE, err |-> "none", string_key |-> string_key,
           line |-> line, flat_len |-> Len(string_key) + 1 + rl + 1
                                           + Len(node[3]) + 1]

\* ----------------------------------------------------- B-tree leaf parser

\* memchr(s + start, c, last - start): the offset of the first c in
\* [start, last), NULLPTR when there is none.
memchr_to(s, c, start, last) == memchr(SubSeq(s, 1, last), c, start)

\* _my_memrchr(s + start, c, pos + 1 - start): the offset of the last c in
\* [start, pos], NULLPTR when there is none.
RECURSIVE my_memrchr_from(_, _, _, _)
my_memrchr_from(s, c, start, pos) ==
    IF pos >= start
    THEN IF s[pos + 1] = c THEN pos ELSE my_memrchr_from(s, c, start, pos - 1)
    ELSE NULLPTR

\* strncmp(lit, s + start, n), lit a C literal with its NUL: the difference
\* of the first differing bytes, 0 when the first n bytes are equal or both
\* strings end.
RECURSIVE strncmp(_, _, _, _, _)
strncmp(lit, s, start, n, i) ==
    IF i >= n THEN 0
    ELSE LET c1 == IF i < Len(lit) THEN lit[i + 1] ELSE NUL
             c2 == s[start + i + 1]
         IN  IF c1 # c2 THEN c1 - c2
             ELSE IF c1 = NUL THEN 0
             ELSE strncmp(lit, s, start, n, i + 1)

\* An extract_key that ends the key at a segment with no NUL behind it,
\* however many segments it has by then.
RECURSIVE extract_key_lenient(_, _, _, _, _, _)
extract_key_lenient(s, start, last, klen, loop_counter, key) ==
    IF ~(loop_counter < klen)
    THEN [ok |-> TRUE, err |-> "none", key |-> key, start |-> start]
    ELSE LET found == memchr_to(s, NUL, start, last)
         IN  IF found = NULLPTR
             THEN [ok |-> TRUE, err |-> "none",
                   key |-> Append(key, SubSeq(s, start + 1, last)),
                   start |-> last + 1]
             ELSE extract_key_lenient(s, found + 1, last, klen,
                                      loop_counter + 1,
                                      Append(key, SubSeq(s, start + 1, found)))

\* BTreeLeafParser.extract_key(last) from self._start = start: the loop over
\* the key_length segments.  start is the value self._start is left with.
RECURSIVE extract_key(_, _, _, _, _, _)
extract_key(s, start, last, klen, loop_counter, key) ==
    IF ~(loop_counter < klen)
    THEN [ok |-> TRUE, err |-> "none", key |-> key, start |-> start]
    ELSE LET found == memchr_to(s, NUL, start, last)
         IN  IF found = NULLPTR /\ loop_counter + 1 # klen
             THEN [ok |-> FALSE, err |-> "invalid key, wanted segment",
                   key |-> key, start |-> start]
             ELSE LET temp_ptr == IF found = NULLPTR THEN last ELSE found
                  IN  extract_key(s, temp_ptr + 1, last, klen,
                                  loop_counter + 1,
                                  Append(key, SubSeq(s, start + 1, temp_ptr)))

\* The loop of process_line over the keys of one reference list, which ends
\* at ref_ptr.
RECURSIVE ref_list_loop(_, _, _, _, _)
ref_list_loop(s, start, ref_ptr, klen, ref_list) ==
    IF ~(start < ref_ptr)
    THEN [ok |-> TRUE, err |-> "none", ref_list |-> ref_list]
    ELSE LET found == memchr_to(s, CR, start, ref_ptr)
             temp_ptr == IF found = NULLPTR THEN ref_ptr ELSE found
             k == extract_key(s, start, temp_ptr, klen, 0, <<>>)
         IN  IF ~k.ok
             THEN [ok |-> FALSE, err |-> k.err, ref_list |-> ref_list]
             ELSE ref_list_loop(s, k.start, ref_ptr, klen,
                                Append(ref_list, k.key))

\* The loop of process_line over the ref_list_length reference lists, which
\* lie between start and last.
RECURSIVE ref_lists_loop(_, _, _, _, _, _, _)
ref_lists_loop(s, start, last, klen, rll, loop_counter, ref_lists) ==
    IF ~(loop_counter < rll)
    THEN [ok |-> TRUE, err |-> "none", ref_lists |-> ref_lists]
    ELSE IF last < start
    THEN [ok |-> FALSE, err |-> "last < self._start",
          ref_lists |-> ref_lists]
    ELSE LET found == memchr_to(s, TAB, start, last)
         IN  IF found = NULLPTR /\ loop_counter + 1 # rll
             THEN [ok |-> FALSE,
                   err |-> "loop_counter != self.ref_list_length",
                   ref_lists |-> ref_lists]
             ELSE LET ref_ptr == IF found = NULLPTR THEN last ELSE found
                      next_start == IF found = NULLPTR THEN last
                                    ELSE found + 1
                      r == ref_list_loop(s, start, ref_ptr, klen, <<>>)
                  IN  IF ~r.ok
                      THEN [ok |-> FALSE, err |-> r.err,
                            ref_lists |-> ref_lists]
                      ELSE ref_lists_loop(s, next_start, last, klen, rll,
                                          loop_counter + 1,
                                          Append(ref_lists, r.ref_list))
\* A reference-data test that is never met.
UnexpectedRefDataNever(start, last) == FALSE

\* The test of process_line, without reference lists, for bytes between the
\* key and the value.
UnexpectedRefData(start, last) == last # start

\* The header test of process_line on the line [start, last).
HeaderMatches(s, start, last) ==
    strncmp(TypeLeaf, s, start, last - start, 0) = 0

\* What is left of process_line once the key is read and self._start is
\* start: the value area, then the reference lists.
LineValue(s, key, start, line_end, klen, rll) ==
    LET temp_ptr == my_memrchr_from(s, NUL, start, line_end - 1)
    IN  IF temp_ptr = NULLPTR
        THEN [ok |-> FALSE, err |-> "Failed to find the value area",
              entries |-> <<>>]
        ELSE
          LET value == SubSeq(s, temp_ptr + 2, line_end)
              last == temp_ptr
          IN  IF rll # 0
              THEN LET r == ref_lists_loop(s, start, last, klen, rll, 0, <<>>)
                   IN  IF ~r.ok
                       THEN [ok |-> FALSE, err |-> r.err, entries |-> <<>>]
                       ELSE [ok |-> TRUE, err |-> "none",
                             entries |-> << <<key, <<value, r.ref_lists>>>> >>]
              ELSE IF UnexpectedRefData(start, last)
                   THEN [ok |-> FALSE,
                         err |-> "unexpected reference data present",
                         entries |-> <<>>]
                   ELSE [ok |-> TRUE, err |-> "none",
                         entries |-> << <<key, <<value, <<>>>>>> >>]

\* A process_line that leaves the cursor on the LF it found instead of
\* behind it.
process_line_on_lf(s, cur, hf, klen, rll) ==
    LET start == cur
        found == memchr_to(s, LF, start, Len(s))
        last == IF found = NULLPTR THEN Len(s) ELSE found
        next == IF found = NULLPTR THEN Len(s) ELSE found
    IN  IF last = start
        THEN [ok |-> TRUE, err |-> "none", cur |-> next,
              header_found |-> hf, entries |-> <<>>]
        ELSE IF last < start
        THEN [ok |-> FALSE, err |-> "last < self._start", cur |-> next,
              header_found |-> hf, entries |-> <<>>]
        ELSE IF hf = 0
        THEN IF HeaderMatches(s, start, last)
             THEN [ok |-> TRUE, err |-> "none", cur |-> next,
                   header_found |-> 1, entries |-> <<>>]
             ELSE [ok |-> FALSE, err |-> "Node did not start with type=leaf",
                   cur |-> next, header_found |-> hf, entries |-> <<>>]
        ELSE LET k == extract_key(s, start, last, klen, 0, <<>>)
             IN  IF ~k.ok
                 THEN [ok |-> FALSE, err |-> k.err, cur |-> next,
                       header_found |-> hf, entries |-> <<>>]
                 ELSE LET v == LineValue(s, k.key, k.start, last, klen, rll)
                      IN  [ok |-> v.ok, err |-> v.err, cur |-> next,
                           header_found |-> hf, entries |-> v.entries]

\* BTreeLeafParser.process_line() with self._cur_str = cur.  cur and
\* header_found are the values the fields are left with, entries what was
\* appended to self.keys.
process_line(s, cur, hf, klen, rll) ==
    LET start == cur
        found == memchr_to(s, LF, start, Len(s))
        last == IF found = NULLPTR THEN Len(s) ELSE found
        next == IF found = NULLPTR THEN Len(s) ELSE found + 1
    IN  IF last = start
        THEN [ok |-> TRUE, err |-> "none", cur |-> next,
              header_found |-> hf, entries |-> <<>>]
        ELSE IF last < start
        THEN [ok |-> FALSE, err |-> "last < self._start", cur |-> next,
              header_found |-> hf, entries |-> <<>>]
        ELSE IF hf = 0
        THEN IF HeaderMatches(s, start, last)
             THEN [ok |-> TRUE, err |-> "none", cur |-> next,
                   header_found |-> 1, entries |-> <<>>]
             ELSE [ok |-> FALSE, err |-> "Node did not start with type=leaf",
                   cur |-> next, header_found |-> hf, entries |-> <<>>]
        ELSE LET k == extract_key(s, start, last, klen, 0, <<>>)
             IN  IF ~k.ok
                 THEN [ok |-> FALSE, err |-> k.err, cur |-> next,
                       header_found |-> hf, entries |-> <<>>]
                 ELSE LET v == LineValue(s, k.key, k.start, last, klen, rll)
                      IN  [ok |-> v.ok, err |-> v.err, cur |-> next,
                           header_found |-> hf, entries |-> v.entries]

\* ------------------------------------------------------- leaf inputs

KeyLengths == {1, 2}
RefListLengths == {0, 1, 2}
LeafSegs == {<<>>, <<CH_a>>}

\* Keys of k segments, and lists of at most MaxRefs of them.
LeafKeys(k) == [1..k -> LeafSegs]
LeafRefLists(k) == SeqsUpTo(LeafKeys(k), MaxRefs)

\* (key, value) pairs: no byte string empty, every byte string empty, and a
\* key that only starts with a byte.
LeafKeyValues(k) ==
    { << [i \in 1..k |-> <<CH_a>>], <<CH_a>> >>,
      << [i \in 1..k |-> <<>>], <<>> >>,
      << [i \in 1..k |-> IF i = 1 THEN <<CH_a>> ELSE <<>>], <<CH_a>> >> }

\* (index, key, value, references) nodes with any references within the
\* bounds, in 0, 1 or 2 lists.
RichNodes(k) ==
    { <<0, kv[1], kv[2], refs>> :
          kv \in LeafKeyValues(k),
          refs \in UNION {[1..r -> LeafRefLists(k)] : r \in RefListLengths} }

\* Two nodes of distinct keys for an index of r reference lists, the first
\* with a reference in every list.
PlainNodes(k, r) ==
    { <<0, [i \in 1..k |-> <<CH_a>>], <<CH_a>>,
        [j \in 1..r |-> << [i \in 1..k |-> <<CH_b>>] >>]>>,
      <<0, [i \in 1..k |-> <<CH_b>>], <<>>, [j \in 1..r |-> <<>>]>> }

\* A node cut or padded to n elements.
WithArity(node, n) ==
    [i \in 1..n |-> IF i <= Len(node) THEN node[i] ELSE 0]

\* What the buffer starts with, before the lines of the nodes: the header
\* line, a prefix of it, more than it, nothing, blank lines around it.
HeaderLines ==
    { TypeLeaf \o <<LF>>,
      SubSeq(TypeLeaf, 1, 8) \o <<LF>>,
      SubSeq(TypeLeaf, 1, 1) \o <<LF>>,
      TypeLeaf \o <<CH_a, LF>>,
      TypeLeaf \o <<NUL, CH_a, LF>>,
      <<>>,
      <<LF>>,
      <<LF>> \o TypeLeaf \o <<LF>>,
      TypeLeaf \o <<LF, LF>> }

\* One node with references, parsed under any ref_list_length.
InitLeafOneNode ==
    /\ reference_lists = TRUE
    /\ nodes \in {<<n>> : n \in RichNodes(key_length)}
    /\ bytes = TypeLeaf \o <<LF>>

\* Nodes as the index writes them, behind any header.
InitLeafNodes ==
    /\ reference_lists \in BOOLEAN
    /\ reference_lists \/ ref_list_length = 0
    /\ nodes \in SeqsUpTo(
           {WithArity(n, IF reference_lists THEN 4 ELSE 3) :
                n \in PlainNodes(key_length, ref_list_length)}, MaxNodes)
    /\ bytes \in HeaderLines

\* One node of 2 to 5 elements.
InitLeafArity ==
    /\ reference_lists \in BOOLEAN
    /\ nodes \in {<<WithArity(n, a)>> :
                      n \in PlainNodes(key_length, ref_list_length),
                      a \in 2..5}
    /\ bytes = TypeLeaf \o <<LF>>

\* The lines hand-made buffers are built from: entries of one- and
\* two-segment keys without references, an entry with two reference lists,
\* a blank line, and an entry whose reference has one segment.
RawLines ==
    { <<CH_a, NUL, NUL, CH_a>>,
      <<CH_b, NUL, CH_a, NUL, NUL, CH_b>>,
      <<CH_a, NUL, CH_b, TAB, NUL, CH_b>>,
      <<>>,
      <<CH_a, NUL, CH_a, NUL, CH_b, NUL, CH_a>> }

\* The lines, each followed by LF.
RECURSIVE LayLines(_)
LayLines(lines) ==
    IF lines = <<>> THEN <<>>
    ELSE Head(lines) \o <<LF>> \o LayLines(Tail(lines))

\* The buffer with or without the LF of its last line.
WithOrWithoutLastLF(s) == {s, SubSeq(s, 1, Len(s) - 1)}

\* A buffer that was not made by _flatten_node: the header line and up to
\* MaxLines lines, blank ones among them, the last with or without its LF.
InitLeafRaw ==
    /\ reference_lists = FALSE
    /\ nodes = <<>>
    /\ bytes \in UNION {WithOrWithoutLastLF(TypeLeaf \o <<LF>> \o LayLines(ls)) :
                            ls \in SeqsUpTo(RawLines, MaxLines)}

InitLeaf ==
    /\ pc = "flatten"
    /\ op = "none"
    /\ result = 0
    /\ aligned1 = TRUE
    /\ aligned2 = TRUE
    /\ CmpIdle
    /\ BisectIdle
    /\ ReaderIdle
    /\ OrderIdle
    /\ flat = <<>>
    /\ cur_str = NULLPTR
    /\ header_found = 0
    /\ keys = <<>>
    /\ leaf_err = "none"
    /\ key_length \in KeyLengths
    /\ ref_list_length \in RefListLengths
    /\ \/ InitLeafOneNode
       \/ InitLeafNodes
       \/ InitLeafArity
       \/ InitLeafRaw
    /\ passes = 0

\* _flatten_node on the next node; its line goes to the end of the buffer.
FlattenNode ==
    /\ pc = "flatten"
    /\ Len(flat) < Len(nodes)
    /\ op' = "flatten_node"
    /\ LET r == flatten_node(nodes[Len(flat) + 1], reference_lists)
       IN  IF ~r.ok
           THEN /\ pc' = "error"
                /\ leaf_err' = r.err
                /\ UNCHANGED <<flat, bytes>>
           ELSE /\ flat' = Append(flat, <<r.string_key, r.line>>)
                /\ bytes' = bytes \o r.line
                /\ UNCHANGED <<pc, leaf_err>>
    /\ UNCHANGED <<result, aligned1, aligned2, cmp_vars, bisect_vars,
                   reader_vars, order_vars, nodes, reference_lists,
                   key_length, ref_list_length, cur_str, header_found, keys>>
    /\ UNCHANGED passes

\* _parse_leaf_lines: BTreeLeafParser.__init__ and parse() up to its loop.
LeafParse ==
    /\ pc = "flatten"
    /\ Len(flat) = Len(nodes)
    /\ pc' = "parse"
    /\ op' = "parse_leaf_lines"
    /\ cur_str' = 0
    /\ header_found' = 0
    /\ keys' = <<>>
    /\ UNCHANGED <<result, aligned1, aligned2, cmp_vars, bisect_vars,
                   reader_vars, order_vars, nodes, reference_lists, flat,
                   bytes, key_length, ref_list_length, leaf_err>>
    /\ UNCHANGED passes

\* One pass of the while loop of parse(): process_line().
ProcessLine ==
    /\ pc = "parse"
    /\ cur_str < Len(bytes)
    /\ LET r == process_line(bytes, cur_str, header_found, key_length,
                             ref_list_length)
       IN  /\ cur_str' = r.cur
           /\ header_found' = r.header_found
           /\ keys' = keys \o r.entries
           /\ IF r.ok
              THEN UNCHANGED <<pc, leaf_err>>
              ELSE pc' = "error" /\ leaf_err' = r.err
    /\ UNCHANGED <<op, result, aligned1, aligned2, cmp_vars, bisect_vars,
                   reader_vars, order_vars, nodes, reference_lists, flat,
                   bytes, key_length, ref_list_length>>
    /\ passes' = passes + 1

\* The end of parse(): return self.keys.
ParseReturn ==
    /\ pc = "parse"
    /\ ~(cur_str < Len(bytes))
    /\ pc' = "done"
    /\ UNCHANGED <<op, result, aligned1, aligned2, cmp_vars, bisect_vars,
                   reader_vars, order_vars, leaf_vars>>
    /\ UNCHANGED passes

NextLeaf ==
    \/ FlattenNode
    \/ LeafParse
    \/ ProcessLine
    \/ ParseReturn

SpecLeaf == InitLeaf /\ [][NextLeaf]_vars

\* ---------------------------------------------------- claims on the leaf

\* The lines _flatten_node returned, one after the other.
RECURSIVE FlatLines(_)
FlatLines(fl) ==
    IF fl = <<>> THEN <<>> ELSE Head(fl)[2] \o FlatLines(Tail(fl))

\* The node is an entry of an index of klen key segments and rll reference
\* lists.
WellFormedNode(node, klen, rll, have_reference_lists) ==
    /\ Len(node) = IF have_reference_lists THEN 4 ELSE 3
    /\ Len(node[2]) = klen
    /\ IF have_reference_lists
       THEN /\ Len(node[4]) = rll
            /\ \A i \in 1..Len(node[4]) : \A j \in 1..Len(node[4][i]) :
                   Len(node[4][i][j]) = klen
       ELSE rll = 0

\* The buffer is the header line and the lines of all the nodes, and the
\* parser is set up for the index the nodes belong to.
RoundTripInput ==
    /\ Len(flat) = Len(nodes)
    /\ bytes = TypeLeaf \o <<LF>> \o FlatLines(flat)
    /\ \A i \in 1..Len(nodes) :
           WellFormedNode(nodes[i], key_length, ref_list_length,
                          reference_lists)

\* The (Key, (Value, ReferenceLists)) entries of the nodes.
ExpectedEntries ==
    [i \in 1..Len(nodes) |->
        <<nodes[i][2],
          <<nodes[i][3], IF reference_lists THEN nodes[i][4] ELSE <<>>>>>>]

ParseEnded == op = "parse_leaf_lines" /\ pc \in {"done", "error"}

\* C14 as stated: the parse of the header line and the flattened lines of
\* well-formed nodes, empty byte strings included, returns the entries of
\* the nodes in order.
C14_Original ==
    (ParseEnded /\ RoundTripInput) =>
        /\ pc = "done"
        /\ keys = ExpectedEntries
\* No reference of the node flattens to no bytes at all, as the key ('',)
\* does.
NoBlankReference(node) ==
    Len(node) >= 4 =>
        \A i \in 1..Len(node[4]) : \A j \in 1..Len(node[4][i]) :
            Join(node[4][i][j], NUL) # <<>>

\* C14: the parse of the header line and the flattened lines of well-formed
\* nodes returns the entries of the nodes in order, provided no reference
\* is a one-segment key of no bytes; keys, values and the segments of longer
\* references may be empty.
C14_RoundTrip ==
    (ParseEnded /\ RoundTripInput
         /\ \A i \in 1..Len(nodes) : NoBlankReference(nodes[i])) =>
        /\ pc = "done"
        /\ keys = ExpectedEntries

\* C14 witness: two nodes with a reference in each of two lists came back.
C14_Witness ==
    /\ ParseEnded
    /\ RoundTripInput
    /\ pc = "done"
    /\ Len(nodes) = 2
    /\ ref_list_length = 2
    /\ key_length = 2
    /\ keys = ExpectedEntries
    /\ Len(keys[1][2][2][2]) = 1

\* The first line of s from offset pos on that is not empty, <<>> when there
\* is none.
RECURSIVE FirstNonEmptyLine(_, _)
FirstNonEmptyLine(s, pos) ==
    IF pos >= Len(s) THEN <<>>
    ELSE LET found == memchr(s, LF, pos)
             last == IF found = NULLPTR THEN Len(s) ELSE found
         IN  IF last = pos THEN FirstNonEmptyLine(s, pos + 1)
             ELSE SubSeq(s, pos + 1, last)

\* C15: parse_leaf_lines returns a result only if the first non-empty line
\* of the buffer is exactly type=leaf; with a prefix of it there, or with no
\* non-empty line at all, it fails.
C15_HeaderExact ==
    (op = "parse_leaf_lines" /\ pc = "done") =>
        FirstNonEmptyLine(bytes, 0) = TypeLeaf

\* The bytes of a flattened line between the NUL that ends the key and the
\* NUL before the value.
RefArea(fl) ==
    SubSeq(fl[2], Len(fl[1]) + 2,
           my_memrchr_from(fl[2], NUL, 0, Len(fl[2]) - 1))

\* The TAB-separated groups of bytes in a reference area.
TabGroups(area) == Cardinality({i \in 1..Len(area) : area[i] = TAB}) + 1

\* The buffer is the header line and the lines of all the nodes.
HeaderAndLines ==
    /\ Len(flat) = Len(nodes)
    /\ bytes = TypeLeaf \o <<LF>> \o FlatLines(flat)

\* C16: with ref_list_length > 0 a line is accepted only if its reference
\* area holds exactly ref_list_length TAB-separated groups; a line of fewer
\* or of more groups fails.
C16_GroupCount ==
    (op = "parse_leaf_lines" /\ pc = "done" /\ HeaderAndLines
         /\ ref_list_length > 0) =>
        \A i \in 1..Len(flat) : TabGroups(RefArea(flat[i])) = ref_list_length

\* C17: with ref_list_length = 0 the parse fails with "unexpected reference
\* data present" on a line that has bytes between the NUL ending the key and
\* the NUL before the value, and on lines without such bytes it succeeds,
\* every entry with an empty tuple of reference lists.
C17_NoRefData ==
    (ParseEnded /\ HeaderAndLines /\ ref_list_length = 0) =>
        IF \E i \in 1..Len(flat) : RefArea(flat[i]) # <<>>
        THEN /\ pc = "error"
             /\ leaf_err = "unexpected reference data present"
        ELSE /\ pc = "done"
             /\ Len(keys) = Len(flat)
             /\ \A i \in 1..Len(keys) : keys[i][2][2] = <<>>

\* C17 witness: a line with a reference between key and value was refused.
C17_Witness ==
    /\ ParseEnded
    /\ HeaderAndLines
    /\ ref_list_length = 0
    /\ Len(flat) = 1
    /\ RefArea(flat[1]) = <<CH_a>>
    /\ pc = "error"
    /\ leaf_err = "unexpected reference data present"
    /\ keys = <<>>

\* C18 as stated: _flatten_node takes a node of exactly 4 elements with
\* reference lists and of exactly 3 without; every flattened node has that
\* many.
C18_Original ==
    \A i \in 1..Len(flat) :
        Len(nodes[i]) = IF reference_lists THEN 4 ELSE 3

\* The numbers of elements _flatten_node takes: 4 with reference lists, 3
\* or more without.
ArityTaken(n, have_reference_lists) ==
    IF have_reference_lists THEN n = 4 ELSE n >= 3

\* C18: _flatten_node takes a node of exactly 4 elements with reference
\* lists, and of 3 or more elements without, whose elements after the third
\* it leaves out of the line; a node of any other length is rejected with a
\* ValueError and without output.
C18_Arity ==
    /\ \A i \in 1..Len(flat) :
           /\ ArityTaken(Len(nodes[i]), reference_lists)
           /\ ~reference_lists => RefArea(flat[i]) = <<>>
    /\ (op = "flatten_node" /\ pc = "error") =>
           /\ leaf_err = "ValueError"
           /\ Len(flat) < Len(nodes)
           /\ ~ArityTaken(Len(nodes[Len(flat) + 1]), reference_lists)
           /\ bytes = TypeLeaf \o <<LF>> \o FlatLines(flat)
    /\ op = "parse_leaf_lines" => Len(flat) = Len(nodes)

\* C18 witness: a node of 5 elements was flattened without reference lists.
C18_Witness ==
    /\ ~reference_lists
    /\ Len(nodes) = 1
    /\ Len(nodes[1]) = 5
    /\ Len(flat) = 1
    /\ flat[1][2] = <<CH_a, NUL, NUL, CH_a, LF>>

\* ------------------------------------------- claims on the argument types

BisectOps == {"bisect_path_left", "bisect_path_right", "bisect_dirblock"}

\* C19: called with a sequence that is not a list, or with a path or
\* dirname that is not a byte string, each of the three bisections raises a
\* type error before it reads an element or compares anything, and returns
\* no index.
C19_TypeErrorFirst ==
    (op \in BisectOps /\ (seq_type # "list" \/ target_type # "str")) =>
        /\ pc = "type_error"
        /\ seen = {}
        /\ result = 0

\* C19 witness: bisect_dirblock, given a list of two blocks and a unicode
\* dirname, raised.
C19_Witness ==
    /\ op = "bisect_dirblock"
    /\ pc = "type_error"
    /\ seq_type = "list"
    /\ target_type = "unicode"
    /\ Len(dirblocks) = 2
    /\ seen = {}

\* ------------------------------------------------------- a sort of three

\* A caller that orders three paths with _cmp_path_by_dirblock_c compares
\* them pair by pair; a path compared with itself is one object.
OrderPaths == SeqsUpTo(PathBytes, MaxOrderLen)

InitOrder ==
    /\ pc = "start"
    /\ op = "none"
    /\ result = 0
    /\ aligned1 = TRUE
    /\ aligned2 = TRUE
    /\ path1 \in OrderPaths
    /\ path2 \in OrderPaths
    /\ path3 \in OrderPaths
    /\ same_obj = FALSE
    /\ order = <<>>
    /\ BisectIdle
    /\ ReaderIdle
    /\ LeafIdle
    /\ passes = 0

\* _cmp_path_by_dirblock_c on every pair of the three paths; order[i][j] is
\* the result for the i-th against the j-th.
CallCmpPairs ==
    /\ pc = "start"
    /\ LET p == <<path1, path2, path3>>
       IN  order' = [i \in 1..3 |-> [j \in 1..3 |->
                        cmp_path_by_dirblock(p[i], aligned1, p[j], aligned2,
                                             i = j)]]
    /\ op' = "cmp_path_by_dirblock_pairs"
    /\ pc' = "done"
    /\ UNCHANGED <<result, aligned1, aligned2, cmp_vars, bisect_vars,
                   reader_vars, path3, leaf_vars>>
    /\ UNCHANGED passes

NextOrder == CallCmpPairs

SpecOrder == InitOrder /\ [][NextOrder]_vars

\* ------------------------------------------------ claims on the ordering

\* The directory a path lies directly in: what precedes its last '/', ''
\* when it has none.
DirOf(p) ==
    LET slashes == {i \in 1..Len(p) : p[i] = SLASH}
    IN  IF slashes = {} THEN <<>>
        ELSE SubSeq(p, 1, (CHOOSE i \in slashes :
                               \A k \in slashes : k <= i) - 1)

\* q lies in a subdirectory of d, at any depth.
InSubdirOf(q, d) ==
    LET dq == DirOf(q)
    IN  IF d = <<>> THEN dq # <<>>
        ELSE /\ Len(dq) > Len(d)
             /\ SubSeq(dq, 1, Len(d)) = d
             /\ dq[Len(d) + 1] = SLASH

PairsDone == pc = "done" /\ op = "cmp_path_by_dirblock_pairs"

\* C20: compare_path_by_dirblock keeps the entries of a directory together,
\* no path from outside the directory sorting strictly between two paths
\* directly inside it, and it sorts every path directly inside a directory
\* before every path inside a subdirectory of it.
C20_DirectoriesTogether ==
    PairsDone =>
        /\ (DirOf(path1) = DirOf(path2) /\ DirOf(path3) # DirOf(path1)) =>
               ~(order[1][3] < 0 /\ order[3][2] < 0)
        /\ InSubdirOf(path3, DirOf(path1)) => order[1][3] < 0

\* C20 witness: a/- and a/a lie in a; a//, whose bytes lie between theirs,
\* lies in the subdirectory a/ and sorts after both.
C20_Witness ==
    /\ PairsDone
    /\ path1 = <<CH_a, SLASH, DASH>>
    /\ path2 = <<CH_a, SLASH, CH_a>>
    /\ path3 = <<CH_a, SLASH, SLASH>>
    /\ InSubdirOf(path3, DirOf(path1))
    /\ order[1][2] < 0
    /\ order[1][3] < 0
    /\ order[2][3] < 0

\* ------------------------------------------- claims on the 32-bit loop

\* C21: for all paths and every alignment of the two buffers, the result of
\* compare_by_dirs, computed with the 32-bit loop first where both buffers
\* are aligned, is the result of the byte loop run from the first byte.
C21_FastPathPure ==
    CmpByDirsDone => result = ByteLoop(path1, path2, 0)

\* C21 witness: two aligned paths share their first int and differ in the
\* byte after it, '/' against '-'.
C21_Witness ==
    /\ CmpByDirsDone
    /\ aligned1 /\ aligned2
    /\ ~same_obj
    /\ path1 = <<CH_a, CH_a, CH_a, CH_a, SLASH>>
    /\ path2 = <<CH_a, CH_a, CH_a, CH_a, DASH>>
    /\ WordLoop(path1, path2, 0) = SIZEOF_INT
    /\ result = -1

\* ---------------------------------------------------------------------
\* Claims on the blocks built by _parse_dirblocks.

\* The keys (dirname, name, file_id) of the rows the buffer was laid out from.
InputKeys ==
    [i \in 1..Len(input.rows) |->
        <<input.rows[i][1], input.rows[i][2], input.rows[i][3]>>]

\* The keys of the rows of one block, in block order.
BlockKeys(block) == [i \in 1..Len(block[2]) |-> block[2][i][1]]

\* The keys of the rows of all blocks, block after block.
RECURSIVE AllKeys(_)
AllKeys(blocks) ==
    IF blocks = <<>> THEN <<>>
    ELSE BlockKeys(Head(blocks)) \o AllKeys(Tail(blocks))

\* a can be had from b by dropping elements.
RECURSIVE IsSubseq(_, _)
IsSubseq(a, b) ==
    IF a = <<>> THEN TRUE
    ELSE IF b = <<>> THEN FALSE
    ELSE IF Head(a) = Head(b) THEN IsSubseq(Tail(a), Tail(b))
    ELSE IsSubseq(a, Tail(b))

\* How often the dirname changes along names, starting from prev.
RECURSIVE Changes(_, _)
Changes(names, prev) ==
    IF names = <<>> THEN 0
    ELSE (IF Head(names) # prev THEN 1 ELSE 0)
             + Changes(Tail(names), Head(names))

\* C22: a block is opened exactly when the dirname of a row differs from the
\* active dirname (at first the empty one), every row lies in a block of its
\* own dirname, the rows of a block keep the order of the buffer, and the
\* first block is the block of the empty path.
C22_BlocksFollowDirnames ==
    state_dirblocks # <<>> =>
        /\ state_dirblocks[1][1] = <<>>
        /\ Len(state_dirblocks) =
               2 + Changes(RowDirnames(state_dirblocks), <<>>)
        /\ \A b \in 1..Len(state_dirblocks) :
              \A i \in 1..Len(state_dirblocks[b][2]) :
                  state_dirblocks[b][2][i][1][1] = state_dirblocks[b][1]
        /\ input.layout # "lf" =>
              /\ \A b \in 1..Len(state_dirblocks) :
                    IsSubseq(BlockKeys(state_dirblocks[b]), InputKeys)
              /\ pc # "done" =>
                    AllKeys(state_dirblocks) =
                        SubSeq(InputKeys, 1, entry_count)

\* C22 witness: rows of '', 'a', 'a', '' read; the second row of 'a' joined
\* the block of the first, the last row opened a block of its own.
C22_Witness ==
    /\ pc = "loop"
    /\ entry_count = 4
    /\ BlockNames(state_dirblocks) = << <<>>, <<>>, <<CH_a>>, <<>> >>
    /\ Len(state_dirblocks[1][2]) = 1
    /\ Len(state_dirblocks[3][2]) = 2
    /\ Len(state_dirblocks[4][2]) = 1

\* ---------------------------------------------------------------------
\* Claims on the record layout Reader._get_entry reads.

\* The entry _get_entry builds from a row written with n trees: the key, and
\* per tree minikind, fingerprint, size, executable, info.
RowEntry(row, n) ==
    << <<row[1], row[2], row[3]>>,
       [k \in 1..n |->
           << row[4][k][1],
              row[4][k][2],
              strtoul(row[4][k][3], 0),
              row[4][k][4] # <<>> /\ Head(row[4][k][4]) = CH_y,
              row[4][k][5] >>] >>

\* The entries of the rows the buffer was laid out from, in buffer order.
InputEntries ==
    [i \in 1..Len(input.rows) |-> RowEntry(input.rows[i], input.trees)]

\* The entries of all blocks, block after block.
RECURSIVE AllEntries(_)
AllEntries(blocks) ==
    IF blocks = <<>> THEN <<>>
    ELSE Head(blocks)[2] \o AllEntries(Tail(blocks))

\* Every element of seq is an element of the rows of some block.
HeldByBlocks(seq, blocks) ==
    \A i \in 1..Len(seq) :
        \E b \in 1..Len(blocks) :
            \E j \in 1..Len(blocks[b][2]) : blocks[b][2][j] = seq[i]

\* The parse has ended, one way or the other.
ReaderEnded == pc \in {"done", "error"}

\* C23 as stated: a buffer whose rows end with a bare LF, the next dirname
\* or the buffer end right behind it, is accepted and its rows are returned.
C23_Original ==
    (/\ ReaderEnded
     /\ input.layout = "lf"
     /\ input.cut = 0
     /\ expected_entry_count = Len(input.rows))
        => /\ pc = "done"
           /\ TotalRows(state_dirblocks) = Len(input.rows)
           /\ HeldByBlocks(InputEntries, state_dirblocks)

\* C23: a buffer whose rows end with the field LF, that is LF followed by a
\* NUL of its own like every other field, is accepted when the row count is
\* the expected one, and its rows are returned in buffer order.
C23_LFFieldRows ==
    WholeBuffer =>
        /\ pc = "error" =>
              /\ err = "wrong number of entries"
              /\ expected_entry_count # Len(input.rows)
        /\ (pc = "loop" /\ ~(cur_cstr < Len(text))) =>
              AllEntries(state_dirblocks) = InputEntries
        /\ pc = "done" =>
              /\ expected_entry_count = Len(input.rows)
              /\ TotalRows(state_dirblocks) = Len(input.rows)
              /\ HeldByBlocks(InputEntries, state_dirblocks)

\* C23 witness: three different rows of two trees, each ended by LF NUL,
\* accepted.
C23_Witness ==
    /\ pc = "done"
    /\ WholeBuffer
    /\ input.trees = 2
    /\ Len(input.rows) = 3
    /\ input.rows[1] # input.rows[2]
    /\ input.rows[2] # input.rows[3]
    /\ input.rows[3][1] = <<CH_a>>
    /\ TotalRows(state_dirblocks) = 3
    /\ HeldByBlocks(InputEntries, state_dirblocks)

\* ---------------------------------------------------------------------
\* Claims on Reader.get_next.

\* The errors get_next raises when a field has no NUL before the buffer end.
NoFieldErrors == {"no chars left", "no trailing NULL"}

\* The number of NUL bytes of s at offset pos and behind it.
RECURSIVE NulsFrom(_, _)
NulsFrom(s, pos) ==
    IF pos >= Len(s) THEN 0
    ELSE (IF s[pos + 1] = NUL THEN 1 ELSE 0) + NulsFrom(s, pos + 1)

\* The number of get_next calls _get_entry makes for one row.
FieldsPerRow(n_trees) == 3 + 5 * n_trees + 1

\* C24: a field read at the buffer end, or with no NUL between the cursor
\* and the buffer end, raises; a record with too few NULs left for its
\* fields raises one of these errors, and a parse that ended in one of them
\* did not add a row for that record and did not set the state flag.
C24_FieldNeedsNul ==
    /\ \A c \in 0..Len(text) :
          (c >= Len(text) \/ memchr(text, NUL, c) = NULLPTR) =>
              /\ ~get_next(text, c).ok
              /\ get_next(text, c).err \in NoFieldErrors
    /\ (/\ pc = "loop"
        /\ cur_cstr < Len(text)
        /\ NulsFrom(text, cur_cstr) < FieldsPerRow(num_trees)) =>
          LET e == get_entry(text, cur_cstr, num_trees, current_dirname)
          IN  /\ ~e.ok
              /\ e.err \in NoFieldErrors
    /\ (pc = "error" /\ err \in NoFieldErrors) =>
          /\ TotalRows(state_dirblocks) = entry_count
          /\ dirblock_state = "NOT_IN_MEMORY"
          /\ err = "no chars left" =>
                /\ cur_cstr >= Len(text)
                /\ text # <<>> => text[Len(text)] = NUL
          /\ err = "no trailing NULL" =>
                /\ cur_cstr = NULLPTR
                /\ text # <<>>
                /\ text[Len(text)] # NUL

\* C24 witness: two rows written, the buffer cut inside the second; the
\* first row was returned, the second raised for its missing NUL.
C24_Witness ==
    /\ pc = "error"
    /\ err = "no trailing NULL"
    /\ input.layout = "lf_nul"
    /\ input.cut = 1
    /\ Len(input.rows) = 2
    /\ entry_count = 1
    /\ TotalRows(state_dirblocks) = 1
    /\ cur_cstr = NULLPTR

\* C25: in every column of every row read, the executable flag is true
\* exactly when the executable field written for it is the single byte 'y'.
C25_ExecutableExact ==
    (WholeBuffer /\ pc = "loop") =>
        \A i \in 1..entry_count :
            \A k \in 1..num_trees :
                AllEntries(state_dirblocks)[i][2][k][4]
                    = (input.rows[i][4][k][4] = <<CH_y>>)

\* ---------------------------------------------------------------------
\* Claims on the line _flatten_node writes.

\* The reference lists _flatten_node looks at: node[3] of an index with
\* reference lists, none otherwise.
NodeRefs(node) == IF reference_lists THEN node[4] ELSE <<>>

\* s has the byte c.
HasByte(s, c) == \E i \in 1..Len(s) : s[i] = c

\* C26: for every node flattened, string_key is the NUL-join of the key, the
\* line is string_key NUL refs NUL value LF with refs the TAB-join of the
\* CR-joins of the NUL-joined references, and the bytes written number the
\* length computed before the buffer was made.
C26_LineExact ==
    \A i \in 1..Len(flat) :
        LET node == nodes[i]
            key == Join(node[2], NUL)
            refs == Join([a \in 1..Len(NodeRefs(node)) |->
                            Join([b \in 1..Len(NodeRefs(node)[a]) |->
                                     Join(NodeRefs(node)[a][b], NUL)], CR)],
                         TAB)
        IN  /\ flat[i][1] = key
            /\ flat[i][2] = key \o <<NUL>> \o refs \o <<NUL>> \o node[3]
                                \o <<LF>>
            /\ flatten_node(node, reference_lists).flat_len
                   = Len(flat[i][2])
            /\ Len(flat[i][2])
                   = Len(key) + 1 + Len(refs) + 1 + Len(node[3]) + 1

\* C26 witness: a node of a two-segment key with two reference lists, the
\* first of two references, was flattened; its line has TAB and CR.
C26_Witness ==
    /\ Len(flat) = 1
    /\ reference_lists
    /\ key_length = 2
    /\ Len(nodes[1][4]) = 2
    /\ Len(nodes[1][4][1]) = 2
    /\ nodes[1][4][1][1] = <<<<CH_a>>, <<>>>>
    /\ HasByte(flat[1][2], TAB)
    /\ HasByte(flat[1][2], CR)

\* ---------------------------------------------------------------------
\* Claims on the entries parse_leaf_lines returns.

\* The lines of s from offset pos on that are not empty, the last one with
\* or without an LF behind it.
RECURSIVE NonEmptyLines(_, _)
NonEmptyLines(s, pos) ==
    IF pos >= Len(s) THEN <<>>
    ELSE LET found == memchr(s, LF, pos)
             last == IF found = NULLPTR THEN Len(s) ELSE found
         IN  IF last = pos THEN NonEmptyLines(s, pos + 1)
             ELSE <<SubSeq(s, pos + 1, last)>> \o NonEmptyLines(s, last + 1)

\* a is what b begins with, and what b ends with.
IsPrefix(a, b) == Len(a) <= Len(b) /\ SubSeq(b, 1, Len(a)) = a
IsSuffix(a, b) ==
    Len(a) <= Len(b) /\ SubSeq(b, Len(b) - Len(a) + 1, Len(b)) = a

\* The lines behind the header line.
EntryLines == Tail(NonEmptyLines(bytes, 0))

\* C27: a successful parse returns one entry per non-empty line behind the
\* header, in the order of the lines, none for an empty line, the same for
\* a last line with and without LF; every key and every reference has
\* key_length segments, every entry ref_list_length reference lists.
C27_EntryPerLine ==
    (op = "parse_leaf_lines" /\ pc = "done"
         /\ NonEmptyLines(bytes, 0) # <<>>) =>
        /\ Len(keys) = Len(EntryLines)
        /\ \A i \in 1..Len(keys) :
              /\ Len(keys[i][1]) = key_length
              /\ Len(keys[i][2][2]) = ref_list_length
              /\ \A a \in 1..Len(keys[i][2][2]) :
                    \A b \in 1..Len(keys[i][2][2][a]) :
                        Len(keys[i][2][2][a][b]) = key_length
              /\ IsPrefix(Join(keys[i][1], NUL) \o <<NUL>>, EntryLines[i])
              /\ IsSuffix(<<NUL>> \o keys[i][2][1], EntryLines[i])

\* C27 witness: a hand-made buffer of an entry, a blank line, and a second
\* entry without its LF gave the two entries in that order.
C27_Witness ==
    /\ op = "parse_leaf_lines"
    /\ pc = "done"
    /\ key_length = 1
    /\ ref_list_length = 2
    /\ bytes = TypeLeaf \o <<LF>>
                   \o <<CH_a, NUL, CH_b, TAB, NUL, CH_b, LF>>
                   \o <<LF>>
                   \o <<CH_a, NUL, CH_b, TAB, NUL, CH_b>>
    /\ Len(keys) = 2
    /\ keys[1] = << <<<<CH_a>>>>, << <<CH_b>>, << << <<<<CH_b>>>> >>, <<>> >> >> >>
    /\ keys[2] = keys[1]

\* ---------------------------------------------------------------------
\* Both parsers, and their progress through the buffer.

InitParsers == InitReader \/ InitLeaf

NextParsers == NextReader \/ NextLeaf

\* _read_dirblocks_c on a dirstate buffer, or _flatten_node and
\* _parse_leaf_lines on a leaf buffer.
SpecParsers == InitParsers /\ [][NextParsers]_vars

\* A pass of either loop that did not raise moved the cursor forward, and
\* not past the buffer end.
PassAdvances ==
    /\ (op = "read_dirblocks" /\ passes' # passes /\ pc' # "error") =>
          /\ cur_cstr < cur_cstr'
          /\ cur_cstr' <= Len(text)
    /\ (op = "parse_leaf_lines" /\ passes' # passes /\ pc' # "error") =>
          /\ cur_str < cur_str'
          /\ cur_str' <= Len(bytes)

\* While no call has raised, the cursors are inside their buffers or at
\* their ends; a leaf parser that raised has its cursor there as well.
CursorInBuffer ==
    /\ (op = "read_dirblocks" /\ pc # "error") =>
          /\ 0 <= cur_cstr
          /\ cur_cstr <= Len(text)
    /\ op = "parse_leaf_lines" =>
          /\ 0 <= cur_str
          /\ cur_str <= Len(bytes)

\* The loops have made no more passes than the buffer has bytes, and no more
\* than the cursor has passed while nothing was raised; a parse that
\* returned has its cursor at the buffer end.
PassPerByte ==
    /\ op = "read_dirblocks" =>
          /\ passes <= Len(text)
          /\ pc # "error" => passes <= cur_cstr
          /\ pc = "done" => cur_cstr = Len(text)
    /\ op = "parse_leaf_lines" =>
          /\ passes <= Len(bytes)
          /\ pc # "error" => passes <= cur_str
          /\ pc = "done" => cur_str = Len(bytes)

\* C28: every _get_entry call and every process_line call raises or moves
\* the cursor strictly forward, the cursor stays within the buffer, and
\* either loop ends within as many passes as the buffer has bytes.
C28_Progress ==
    /\ [][PassAdvances]_vars
    /\ [](CursorInBuffer /\ PassPerByte)

\* C28 witness: four rows read in four passes, the cursor at the buffer end.
C28_Witness ==
    /\ op = "read_dirblocks"
    /\ pc = "done"
    /\ entry_count = 4
    /\ passes = 4
    /\ cur_cstr = Len(text)
    /\ Len(text) > 4 * FieldsPerRow(num_trees)

\* ---------------------------------------------------------------------
\* Claims on compare_path_by_dirblock as an ordering.

\* C29: compare_path_by_dirblock returns 0 only for two paths of the same
\* bytes; for two different paths, paths that begin with '/' or are made of
\* '/' only included, it returns a non-zero value.
C29_ZeroOnlyIdentical ==
    (op = "cmp_path_by_dirblock" /\ pc = "done" /\ path1 # path2)
        => result # 0

\* C30: for all paths p, q, r the sign of compare_path_by_dirblock(p, q) is
\* the negated sign of compare_path_by_dirblock(q, p), and p <= q with
\* q <= r gives p <= r, the empty path and a path compared with itself as
\* one object included.
C30_ConsistentOrder ==
    PairsDone =>
        /\ \A i, j \in 1..3 :
               Sign(order[i][j]) = -Sign(order[j][i])
        /\ \A i, j, k \in 1..3 :
               (order[i][j] <= 0 /\ order[j][k] <= 0) => order[i][k] <= 0

\* C30 witness: '' before a/a before a//, each pair in both directions, the
\* first with the third as well.
C30_Witness ==
    /\ PairsDone
    /\ path1 = <<>>
    /\ path2 = <<CH_a, SLASH, CH_a>>
    /\ path3 = <<CH_a, SLASH, SLASH>>
    /\ order[1][2] < 0 /\ order[2][1] > 0
    /\ order[2][3] < 0 /\ order[3][2] > 0
    /\ order[1][3] < 0 /\ order[3][1] > 0
    /\ order[1][1] = 0 /\ order[2][2] = 0 /\ order[3][3] = 0

====
